---- MODULE Spec2Model ----
(***************************************************************************)
(* Model of the NBA analytics backend: the TTL cache (core/cache.py), the  *)
(* dataset store (services/storage), the stat name resolver and the data   *)
(* retriever (services/nba/nba_api_client.py) and the query pipeline       *)
(* (services/llm/query_processor.py).                                      *)
(***************************************************************************)
EXTENDS Integers, Sequences, FiniteSets, TLC

VARIABLES
    store,      \* Cache._store: key -> [value, expiry]
    now,        \* the reading of time.time(), in whole seconds
    cacheCall,  \* the last call made on the cache and what it returned
    hist,       \* per key, the last set() not yet undone by delete()
    rin,        \* the arguments of __resolve_stat_column
    rout,       \* what __resolve_stat_column returned for rin
    files,      \* the files under base_directory: path -> [content, mtime]
    dirs,       \* the prefixes whose directory exists
    mtick,      \* the file system's modification clock
    saveCall,   \* the last save() call: its arguments and return value
    loadCall,   \* the last load() call: its arguments and return value
    nsaves,     \* the number of save() calls made
    backend,    \* the storage Settings created: local, s3 or s3 without a bucket
    savers,     \* per thread inside save(): its writes and how many are done
    cached_data, \* NBAApiClient.cached_data
    clientCall, \* the last call made on the client and how it ended
    loaded,     \* per (prefix, latest_only), the dataset load_data last stored
    qpc,        \* where QueryProcessor.query stands
    extraction, \* what the structured LLM call of the analyzer produced
    analysis,   \* how _analyze_query ended
    data,       \* what _fetch_relevant_data returned
    answer,     \* what _generate_answer returned
    data_sample, \* the records _generate_answer put in the LLM's messages
    llmCalls,   \* how often this query() invoked the LLM, per stage
    lock,       \* Cache._lock: the thread that holds it, or Free
    calls       \* per thread, the cache call it is making or made last

lockVars == <<lock, calls>>
cacheVars == <<store, now, cacheCall, hist, lockVars>>
resolveVars == <<rin, rout>>
storageVars == <<files, dirs, mtick, saveCall, loadCall, nsaves, backend, savers>>
clientVars == <<cached_data, clientCall, loaded>>
queryVars == <<qpc, extraction, analysis, data, answer, data_sample, llmCalls>>

\* what the calls on one component leave alone
notCache == <<lockVars, resolveVars, storageVars, clientVars, queryVars>>
notResolve == <<cacheVars, storageVars, clientVars, queryVars>>
notStorage == <<store, cacheCall, hist, lockVars, resolveVars, clientVars, queryVars>>
\* the client reads the clock and uses the cache
notClient == <<now, cacheCall, lockVars, resolveVars, storageVars>>

vars == <<store, now, cacheCall, hist, rin, rout,
          files, dirs, mtick, saveCall, loadCall, nsaves, backend, savers,
          cached_data, clientCall, loaded, qpc, extraction, analysis, data, answer,
          data_sample, llmCalls, lock, calls>>

----------------------------------------------------------------------------
(* Bounds of the model *)

MaxTime == 3
MaxTtl == 1
MaxSaves == 2

----------------------------------------------------------------------------
(* Python values *)

PyNone == [t |-> "none"]
PyStr(s) == [t |-> "str", v |-> s]

\* Optional[float] of the expiry, Optional[int] of the ttl
None == <<>>
Some(x) == <<x>>

----------------------------------------------------------------------------
(* core/cache.py *)

CacheKeys == {"k1", "k2"}
CacheValues == {PyStr("a"), PyStr("b")}
CacheDefaults == {PyNone, PyStr("dflt")}
Ttls == {None} \cup {Some(t) : t \in 0..MaxTtl}

\* expiry = None if ttl is None else (time.time() + float(ttl))
Expiry(ttl, t) == IF ttl = None THEN None ELSE Some(t + ttl[1])

\* self._store[key] = (value, expiry)
CacheSet(s, key, value, ttl, t) ==
    [k \in DOMAIN s \cup {key} |->
        IF k = key THEN [value |-> value, expiry |-> Expiry(ttl, t)] ELSE s[k]]

\* del self._store[key]
Del(s, key) == [k \in DOMAIN s \ {key} |-> s[k]]

ExpiredNever(item, t) == FALSE

ExpiredAtDeadline(item, t) == item.expiry # None /\ t >= item.expiry[1]

\* expiry is not None and time.time() > expiry
Expired(item, t) == item.expiry # None /\ t > item.expiry[1]

\* Cache.get: the value returned
CacheGetRet(s, key, default, t) ==
    IF key \notin DOMAIN s THEN default
    ELSE IF Expired(s[key], t) THEN default
    ELSE s[key].value

CacheGetKeepsExpired(s, key, t) == s

\* Cache.get: the map it leaves
CacheGetStore(s, key, t) ==
    IF key \in DOMAIN s /\ Expired(s[key], t) THEN Del(s, key) ELSE s

\* Cache.has: self.get(key, default=None) is not None
CacheHasRet(s, key, t) == CacheGetRet(s, key, PyNone, t) # PyNone

\* Cache.delete
CacheDelete(s, key) == IF key \in DOMAIN s THEN Del(s, key) ELSE s

NoCall == [op |-> "none"]

\* the record kept of a set()
HistSet(h, key, value, ttl, t) ==
    [k \in DOMAIN h \cup {key} |->
        IF k = key THEN [value |-> value, ttl |-> ttl, at |-> t] ELSE h[k]]

Set(key, value, ttl) ==
    /\ store' = CacheSet(store, key, value, ttl, now)
    /\ hist' = HistSet(hist, key, value, ttl, now)
    /\ cacheCall' = [op |-> "set", key |-> key, at |-> now]
    /\ UNCHANGED <<now, notCache>>

Get(key, default) ==
    /\ store' = CacheGetStore(store, key, now)
    /\ cacheCall' = [op |-> "get", key |-> key, default |-> default, at |-> now,
                     ret |-> CacheGetRet(store, key, default, now)]
    /\ UNCHANGED <<now, hist, notCache>>

Has(key) ==
    /\ store' = CacheGetStore(store, key, now)
    /\ cacheCall' = [op |-> "has", key |-> key, at |-> now,
                     ret |-> CacheHasRet(store, key, now)]
    /\ UNCHANGED <<now, hist, notCache>>

Delete(key) ==
    /\ store' = CacheDelete(store, key)
    /\ hist' = [k \in DOMAIN hist \ {key} |-> hist[k]]
    /\ cacheCall' = [op |-> "delete", key |-> key, at |-> now]
    /\ UNCHANGED <<now, notCache>>

\* time passes between two calls
Tick ==
    /\ now < MaxTime
    /\ now' = now + 1
    /\ UNCHANGED <<store, cacheCall, hist, notCache>>

\* the threads of the process, one per request
Threads == {1, 2}

\* threading.Lock(), not held
Free == 0

CacheIdle ==
    /\ store = <<>>
    /\ now = 0
    /\ cacheCall = NoCall
    /\ hist = <<>>
    /\ lock = Free
    /\ calls = <<>>

ResolveIdle ==
    /\ rin = <<>>
    /\ rout = ""

\* Settings.__create_storage: S3Storage when STORAGE_TYPE is s3, with or
\* without a bucket name, LocalStorage otherwise
Backends == {"local", "s3", "unconfigured"}

StorageIdleOn(b) ==
    /\ files = <<>>
    /\ dirs = {}
    /\ mtick = 0
    /\ saveCall = NoCall
    /\ loadCall = NoCall
    /\ nsaves = 0
    /\ backend = b
    /\ savers = <<>>

\* STORAGE_TYPE defaults to local
StorageIdle == StorageIdleOn("local")

\* NBAApiClient.__init__
ClientIdle ==
    /\ cached_data = <<>>
    /\ clientCall = NoCall
    /\ loaded = <<>>

NoLlmCalls == [analyze |-> 0, answer |-> 0]

\* QueryProcessor.__init__, no query made yet
QueryIdle ==
    /\ qpc = "idle"
    /\ extraction = NoCall
    /\ analysis = NoCall
    /\ data = NoCall
    /\ answer = ""
    /\ data_sample = NoCall
    /\ llmCalls = NoLlmCalls

CacheInit == CacheIdle /\ ResolveIdle /\ StorageIdle /\ ClientIdle /\ QueryIdle

CacheSetStep == \E k \in CacheKeys, v \in CacheValues, ttl \in Ttls : Set(k, v, ttl)
CacheGetStep == \E k \in CacheKeys, d \in CacheDefaults : Get(k, d)
CacheHasStep == \E k \in CacheKeys : Has(k)
CacheDeleteStep == \E k \in CacheKeys : Delete(k)

CacheNext ==
    \/ CacheSetStep
    \/ CacheGetStep
    \/ CacheHasStep
    \/ CacheDeleteStep
    \/ Tick

SpecCache == CacheInit /\ [][CacheNext]_vars

----------------------------------------------------------------------------
(* core/cache.py, called from several threads *)

\* The steps of a call are its accesses to the lock, the map and the clock.
LockKeys == {"k1"}
LockValues == {PyStr("a")}
LockDefaults == {PyStr("dflt")}

notLock == <<cacheCall, hist, resolveVars, storageVars, clientVars, queryVars>>

Idle(t) == IF t \in DOMAIN calls THEN calls[t].pc = "done" ELSE TRUE
Put(t, c) == calls' = [u \in DOMAIN calls \cup {t} |-> IF u = t THEN c ELSE calls[u]]
At(t, pc) == t \in DOMAIN calls /\ calls[t].pc = pc

\* a call is entered: its arguments, and for set() the expiry, which is
\* computed before the lock is asked for; busy is who holds the lock then
Begin(t, op, key, value, ttl, default) ==
    /\ Idle(t)
    /\ Put(t, [op |-> op, key |-> key, value |-> value, expiry |-> Expiry(ttl, now),
               default |-> default, busy |-> lock, item |-> None, expired |-> FALSE,
               ret |-> PyNone, error |-> "", pc |-> "acquire"])
    /\ UNCHANGED <<store, now, lock, notLock>>

\* a call that enters the with block whether the lock is free or not
AcquireWithoutWaiting(t) ==
    /\ At(t, "acquire")
    /\ lock' = t
    /\ Put(t, [calls[t] EXCEPT !.pc = "locked"])
    /\ UNCHANGED <<store, now, notLock>>

\* with self._lock: entered when the lock is free
Acquire(t) ==
    /\ At(t, "acquire")
    /\ lock = Free
    /\ lock' = t
    /\ Put(t, [calls[t] EXCEPT !.pc = "locked"])
    /\ UNCHANGED <<store, now, notLock>>

\* set(): self._store[key] = (value, expiry)
SetItem(t) ==
    /\ At(t, "locked") /\ calls[t].op = "set"
    /\ store' = [k \in DOMAIN store \cup {calls[t].key} |->
                   IF k = calls[t].key
                   THEN [value |-> calls[t].value, expiry |-> calls[t].expiry]
                   ELSE store[k]]
    /\ Put(t, [calls[t] EXCEPT !.pc = "release"])
    /\ UNCHANGED <<now, lock, notLock>>

\* get(): item = self._store.get(key); if item is None: return default
GetItem(t) ==
    /\ At(t, "locked") /\ calls[t].op \in {"get", "has"}
    /\ IF calls[t].key \in DOMAIN store
       THEN Put(t, [calls[t] EXCEPT !.item = Some(store[calls[t].key]), !.pc = "check"])
       ELSE Put(t, [calls[t] EXCEPT !.ret = calls[t].default, !.pc = "release"])
    /\ UNCHANGED <<store, now, lock, notLock>>

\* get(): if expiry is not None and time.time() > expiry, else return value
CheckExpiry(t) ==
    /\ At(t, "check")
    /\ IF Expired(calls[t].item[1], now)
       THEN Put(t, [calls[t] EXCEPT !.expired = TRUE, !.ret = calls[t].default,
                                    !.pc = "remove"])
       ELSE Put(t, [calls[t] EXCEPT !.ret = calls[t].item[1].value, !.pc = "release"])
    /\ UNCHANGED <<store, now, lock, notLock>>

\* delete(): if key in self._store
DeleteCheck(t) ==
    /\ At(t, "locked") /\ calls[t].op = "delete"
    /\ Put(t, [calls[t] EXCEPT !.pc = IF calls[t].key \in DOMAIN store
                                      THEN "remove" ELSE "release"])
    /\ UNCHANGED <<store, now, lock, notLock>>

\* get() and delete(): del self._store[key], a KeyError when the key is gone
Remove(t) ==
    /\ At(t, "remove")
    /\ IF calls[t].key \in DOMAIN store
       THEN /\ store' = Del(store, calls[t].key)
            /\ Put(t, [calls[t] EXCEPT !.pc = "release"])
       ELSE /\ store' = store
            /\ Put(t, [calls[t] EXCEPT !.error = "KeyError", !.pc = "release"])
    /\ UNCHANGED <<now, lock, notLock>>

\* the with block is left, by return or by the exception, and the call ends;
\* has() returns whether what get() returned is not None
Release(t) ==
    /\ At(t, "release")
    /\ lock' = Free
    /\ Put(t, [calls[t] EXCEPT !.pc = "done",
                               !.ret = IF calls[t].op = "has" /\ calls[t].error = ""
                                       THEN [t |-> "bool", v |-> calls[t].ret # PyNone]
                                       ELSE calls[t].ret])
    /\ UNCHANGED <<store, now, notLock>>

BeginSet ==
    \E t \in Threads, key \in LockKeys, value \in LockValues, ttl \in Ttls :
        Begin(t, "set", key, value, ttl, PyNone)
BeginGet ==
    \E t \in Threads, key \in LockKeys, default \in LockDefaults :
        Begin(t, "get", key, PyNone, None, default)
BeginHas == \E t \in Threads, key \in LockKeys : Begin(t, "has", key, PyNone, None, PyNone)
BeginDelete ==
    \E t \in Threads, key \in LockKeys : Begin(t, "delete", key, PyNone, None, PyNone)

LockNext ==
    \/ BeginSet
    \/ BeginGet
    \/ BeginHas
    \/ BeginDelete
    \/ \E t \in Threads : Acquire(t)
    \/ \E t \in Threads : SetItem(t)
    \/ \E t \in Threads : GetItem(t)
    \/ \E t \in Threads : CheckExpiry(t)
    \/ \E t \in Threads : DeleteCheck(t)
    \/ \E t \in Threads : Remove(t)
    \/ \E t \in Threads : Release(t)
    \/ Tick

SpecLock == CacheInit /\ [][LockNext]_vars

----------------------------------------------------------------------------
(* C1 *)

\* the last set() of the key of the last call, if delete() has not undone it
LastSet == hist[cacheCall.key]

\* more than ttl seconds have passed between that set() and the last call
CallAfterTtl ==
    /\ cacheCall.op \in {"get", "has"}
    /\ cacheCall.key \in DOMAIN hist
    /\ LastSet.ttl # None
    /\ cacheCall.at > LastSet.at + LastSet.ttl[1]

\* C1: a get made more than t seconds after set(key, value, ttl=t) returns the
\* caller's default and removes the key, and a has made then returns false and
\* leaves the key absent; a get of a key set without ttl returns the value of
\* the last set whatever time has passed, until delete.
C1_CacheExpiry ==
    /\ (cacheCall.op = "get" /\ CallAfterTtl) =>
          /\ cacheCall.ret = cacheCall.default
          /\ cacheCall.key \notin DOMAIN store
    /\ (cacheCall.op = "has" /\ CallAfterTtl) =>
          /\ cacheCall.ret = FALSE
          /\ cacheCall.key \notin DOMAIN store
    /\ (/\ cacheCall.op = "get"
        /\ cacheCall.key \in DOMAIN hist
        /\ LastSet.ttl = None) =>
          cacheCall.ret = LastSet.value

\* a get made two seconds after a set with ttl=1 gave the caller's default back
C1_Witness ==
    /\ cacheCall.op = "get"
    /\ CallAfterTtl
    /\ cacheCall.default = PyStr("dflt")
    /\ cacheCall.ret = PyStr("dflt")
    /\ LastSet.ttl = Some(1)
    /\ cacheCall.at = LastSet.at + 2
    /\ cacheCall.key \notin DOMAIN store

----------------------------------------------------------------------------
(* services/nba/nba_api_client.py: NBAApiClient.STAT_MAP and               *)
(* NBAApiClient.__resolve_stat_column.  A str argument is the sequence of  *)
(* its characters; the column returned is a string.                        *)

LowerChars == <<"a","b","c","d","e","f","g","h","i","j","k","l","m",
                "n","o","p","q","r","s","t","u","v","w","x","y","z">>
UpperChars == <<"A","B","C","D","E","F","G","H","I","J","K","L","M",
                "N","O","P","Q","R","S","T","U","V","W","X","Y","Z">>
Whitespace == {" ", "\t"}

\* str.lower() and str.upper(), one character
LowerChar(c) ==
    IF \E i \in DOMAIN UpperChars : UpperChars[i] = c
    THEN LowerChars[CHOOSE i \in DOMAIN UpperChars : UpperChars[i] = c]
    ELSE c
UpperChar(c) ==
    IF \E i \in DOMAIN LowerChars : LowerChars[i] = c
    THEN UpperChars[CHOOSE i \in DOMAIN LowerChars : LowerChars[i] = c]
    ELSE c

Lower(s) == [i \in DOMAIN s |-> LowerChar(s[i])]
Upper(s) == [i \in DOMAIN s |-> UpperChar(s[i])]

RECURSIVE LStrip(_)
LStrip(s) == IF s # <<>> /\ Head(s) \in Whitespace THEN LStrip(Tail(s)) ELSE s
RECURSIVE RStrip(_)
RStrip(s) ==
    IF s # <<>> /\ s[Len(s)] \in Whitespace
    THEN RStrip(SubSeq(s, 1, Len(s) - 1)) ELSE s
\* str.strip()
Strip(s) == LStrip(RStrip(s))

\* the str made of the characters of s
RECURSIVE Text(_)
Text(s) == IF s = <<>> THEN "" ELSE Head(s) \o Text(Tail(s))

STAT_MAP ==
    ("minutes" :> "MIN") @@ ("points" :> "PTS") @@ ("rebounds" :> "REB") @@
    ("assists" :> "AST") @@ ("blocks" :> "BLK") @@ ("steals" :> "STL") @@
    ("turnovers" :> "TOV") @@ ("field goals made" :> "FGM") @@
    ("field goals attempted" :> "FGA") @@ ("three pointers made" :> "FG3M") @@
    ("three pointers attempted" :> "FG3A") @@ ("free throws made" :> "FTM") @@
    ("free throws attempted" :> "FTA") @@ ("plus minus" :> "PLUS_MINUS") @@
    ("wins" :> "W") @@ ("losses" :> "L") @@ ("win percentage" :> "W_PCT") @@
    ("games played" :> "GP") @@ ("field goal percentage" :> "FG_PCT") @@
    ("three point percentage" :> "FG3_PCT") @@
    ("free throw percentage" :> "FT_PCT") @@
    ("double-doubles" :> "DD2") @@ ("triple-doubles" :> "TD3") @@
    ("fantasy points" :> "NBA_FANTASY_PTS") @@
    ("WNBA fantasy points" :> "WNBA_FANTASY_PTS") @@ ("age" :> "AGE") @@
    ("nickname" :> "NICKNAME") @@ ("team abbreviation" :> "TEAM_ABBREVIATION") @@
    ("team count" :> "TEAM_COUNT") @@ ("personal fouls drawn" :> "PFD") @@
    ("personal fouls" :> "PF") @@ ("offensive rebounds" :> "OREB") @@
    ("defensive rebounds" :> "DREB")

no_suffix ==
    {"W", "L", "W_PCT", "GP", "FG_PCT", "FG3_PCT", "FT_PCT",
     "AGE", "NICKNAME", "TEAM_ABBREVIATION", "TEAM_COUNT", "DD2", "TD3"}

NormalizeNoLower(stat) == Strip(stat)

NormalizeNoStrip(stat) == Lower(stat)

\* stat = stat.lower().strip()
Normalize(stat) == Strip(Lower(stat))

\* column = self.STAT_MAP.get(stat, stat.upper()), stat already normalized
Column(stat) ==
    IF Text(stat) \in DOMAIN STAT_MAP THEN STAT_MAP[Text(stat)]
    ELSE Text(Upper(stat))

\* the suffix the column of a stat that has one gets
Suffix(stats_type) ==
    IF stats_type = "per_game" THEN "_PER_GAME"
    ELSE IF stats_type = "total" THEN "_TOTAL"
    ELSE "_PER_GAME"

ResolveStatColumn(stat, stats_type) ==
    LET column == Column(Normalize(stat))
    IN  IF column \in no_suffix THEN column
        ELSE column \o Suffix(stats_type)

\* the stat names and the stats_type values the resolver is called with
StatNames ==
    { <<"p","o","i","n","t","s">>,
      <<"w","i","n"," ","p","e","r","c","e","n","t","a","g","e">>,
      <<"w","i","n","s">>,
      <<"p","l","u","s"," ","m","i","n","u","s">>,
      <<"a","g","e">>,
      <<"W","N","B","A"," ","f","a","n","t","a","s","y"," ","p","o","i","n","t","s">>,
      <<"d","u","n","k","s">>,
      <<"g","p">>,
      <<"p","e","r"," ","4","8">> }
StatsTypes == {"per_game", "totals", "total", "advanced", "None"}

Capitalize(s) == [i \in DOMAIN s |-> IF i = 1 THEN UpperChar(s[i]) ELSE s[i]]
Casings(s) == {s, Lower(s), Upper(s), Capitalize(s)}
Paddings(s) == {s, <<" ">> \o s, s \o <<" ">>, <<" ", "\t">> \o s \o <<" ">>}
\* the ways of writing a name that differ in case and surrounding whitespace
Spellings(s) == UNION {Paddings(c) : c \in Casings(s)}

Resolve ==
    /\ rin # <<>>
    /\ rout' = ResolveStatColumn(rin.stat, rin.stats_type)
    /\ UNCHANGED <<rin, notResolve>>

\* the next call
ResolveArgs ==
    /\ \E n \in StatNames, t \in StatsTypes :
         \E s \in Spellings(n) : rin' = [stat |-> s, stats_type |-> t]
    /\ rout' = ""
    /\ UNCHANGED notResolve

ResolveInit == CacheIdle /\ ResolveIdle /\ StorageIdle /\ ClientIdle /\ QueryIdle

ResolveNext ==
    \/ ResolveArgs
    \/ Resolve

SpecResolve == ResolveInit /\ [][ResolveNext]_vars

Resolved == rin # <<>> /\ rout # ""

\* the canonical code of the stat name of the call
Code == Column(Normalize(rin.stat))

\* C7: a stat whose canonical code is not suffix-exempt resolves to
\* code + "_PER_GAME" for stats_type per_game, to code + "_TOTALS" for totals and
\* to code + "_PER_GAME" for every other stats_type.
C7_SuffixRule ==
    (Resolved /\ Code \notin no_suffix) =>
        rout = Code \o (IF rin.stats_type = "totals" THEN "_TOTALS" ELSE "_PER_GAME")

Points == <<"p","o","i","n","t","s">>
WinPercentage == <<"w","i","n"," ","p","e","r","c","e","n","t","a","g","e">>

\* C8: the column depends on the stat name only up to case and surrounding
\* whitespace: every spelling of the name of the call resolves to the column
\* returned; "Points" and " points " give PTS_PER_GAME for per_game; a name
\* whose code is suffix-exempt gives that code for every stats_type
\* ("win percentage" gives W_PCT); a name absent from the table resolves from
\* its upper-cased trimmed text.
C8_CaseAndWhitespace ==
    Resolved =>
        /\ \A s \in Spellings(rin.stat) :
              ResolveStatColumn(s, rin.stats_type) = rout
        /\ (rin.stat \in Spellings(Points) /\ rin.stats_type = "per_game") =>
              rout = "PTS_PER_GAME"
        /\ rin.stat \in Spellings(WinPercentage) => rout = "W_PCT"
        /\ Code \in no_suffix => rout = Code
        /\ Text(Strip(Lower(rin.stat))) \notin DOMAIN STAT_MAP =>
              LET upper == Text(Strip(Upper(rin.stat)))
              IN  rout \in {upper, upper \o "_PER_GAME", upper \o "_TOTAL"}

\* " POINTS " was resolved for per_game
C8_Witness ==
    /\ Resolved
    /\ rin.stat = <<" ", "P","O","I","N","T","S">>
    /\ rin.stats_type = "per_game"
    /\ rout = "PTS_PER_GAME"

----------------------------------------------------------------------------
(* services/storage/local_storage.py.  A table name and a file name are    *)
(* the sequences of the pieces that "_" separates: the table player_stats   *)
(* is <<"player", "stats">>, and its artifact of one save is               *)
(* <<"player", "stats", "20250101", "000001">> with extension csv or json.  *)

PyInt(n) == [t |-> "int", v |-> n]
PyNaN == [t |-> "nan"]

Digits == <<"0", "1", "2", "3", "4", "5", "6", "7", "8", "9">>
IsNumeral(text) == \E i \in DOMAIN Digits : Digits[i] = text
NumeralValue(text) == (CHOOSE i \in DOMAIN Digits : Digits[i] = text) - 1

\* the tables (DataFrames) the datasets are made of
DfEmpty == [cols |-> <<>>, rows |-> <<>>]
DfPlain == [cols |-> <<"A", "B">>,
            rows |-> << <<PyInt(1), PyStr("x")>>, <<PyInt(2), PyStr("y")>> >>]
DfText == [cols |-> <<"id", "note">>,
           rows |-> << <<PyStr("7"), PyStr("")>>, <<PyStr("8"), PyStr("ok")>> >>]
Tables == {DfEmpty, DfPlain, DfText}

\* DataFrame.empty
IsEmpty(df) == df.cols = <<>> \/ df.rows = <<>>

\* DataFrame.to_csv(index=False): the header and, per row, the text of each field
CellText(cell) ==
    IF cell.t = "int" THEN Digits[cell.v + 1]
    ELSE IF cell.t = "str" THEN cell.v
    ELSE ""
ToCsv(df) ==
    [header |-> df.cols,
     lines |-> [i \in DOMAIN df.rows |->
                  [j \in DOMAIN df.rows[i] |-> CellText(df.rows[i][j])]]]

\* pd.read_csv: an empty field is NaN; a column whose other fields are all
\* numerals is a column of numbers, any other column keeps its texts
NumericColumn(csv, j) ==
    \A i \in DOMAIN csv.lines : csv.lines[i][j] = "" \/ IsNumeral(csv.lines[i][j])
ParseCell(csv, i, j) ==
    LET text == csv.lines[i][j]
    IN  IF text = "" THEN PyNaN
        ELSE IF NumericColumn(csv, j) THEN PyInt(NumeralValue(text))
        ELSE PyStr(text)
ReadCsv(csv) ==
    [cols |-> csv.header,
     rows |-> [i \in DOMAIN csv.lines |->
                 [j \in DOMAIN csv.lines[i] |-> ParseCell(csv, i, j)]]]

\* DataFrame.to_json(orient="records"): one object per row, NaN written as null
ToJson(df) ==
    [i \in DOMAIN df.rows |->
       [j \in DOMAIN df.rows[i] |->
          [key |-> df.cols[j],
           value |-> IF df.rows[i][j] = PyNaN THEN "null"
                     ELSE CellText(df.rows[i][j])]]]

\* the datasets save() is called with: a dict of tables, in insertion order
Entry(name, df) == [name |-> name, df |-> df]
Datasets ==
    { <<>>,
      <<Entry(<<"players">>, DfPlain)>>,
      <<Entry(<<"players">>, DfText)>>,
      <<Entry(<<"players">>, DfEmpty)>>,
      <<Entry(<<"player", "stats">>, DfPlain)>>,
      <<Entry(<<"players">>, DfPlain), Entry(<<"player", "stats">>, DfText)>>,
      <<Entry(<<"players">>, DfEmpty), Entry(<<"player", "stats">>, DfPlain)>>,
      <<Entry(<<"players">>, DfText), Entry(<<"players", "old">>, DfPlain)>>,
      <<Entry(<<"players", "old">>, DfText), Entry(<<"players">>, DfPlain)>> }
Prefixes == {"test-data"}

\* datetime.now().strftime("%Y%m%d_%H%M%S")
Timestamp(t) == <<"20250101", "00000" \o Digits[t + 1]>>

Path(prefix, name, ts, ext) == [prefix |-> prefix, tokens |-> name \o ts, ext |-> ext]

\* a save that writes the CSV file of a table only
WritesCsvOnly(dataset, prefix, ts) ==
    LET kept == SelectSeq(dataset, LAMBDA e : ~IsEmpty(e.df))
    IN  [j \in DOMAIN kept |->
           [path |-> Path(prefix, kept[j].name, ts, "csv"), content |-> ToCsv(kept[j].df)]]

\* the files one save() writes, in the order it writes them
RECURSIVE Writes(_, _, _)
Writes(dataset, prefix, ts) ==
    IF dataset = <<>> THEN <<>>
    ELSE LET name == Head(dataset).name
             df == Head(dataset).df
         IN  (IF IsEmpty(df) THEN <<>>
              ELSE << [path |-> Path(prefix, name, ts, "csv"), content |-> ToCsv(df)],
                      [path |-> Path(prefix, name, ts, "json"), content |-> ToJson(df)] >>)
             \o Writes(Tail(dataset), prefix, ts)

\* a save that goes on writing after the operation that raised
ApplyWritesAll(fs, writes, k, base, step) ==
    [p \in DOMAIN fs \cup {writes[j].path : j \in DOMAIN writes} |->
        IF \E j \in DOMAIN writes : writes[j].path = p
        THEN LET j == CHOOSE j \in DOMAIN writes : writes[j].path = p
             IN  [content |-> writes[j].content, mtime |-> base + step * ((j - 1) \div 2)]
        ELSE fs[p]]

\* the files after the first k of these writes; the two files of the first
\* table are stamped base, those of each further table step later
ApplyWrites(fs, writes, k, base, step) ==
    [p \in DOMAIN fs \cup {writes[j].path : j \in 1..k} |->
        IF \E j \in 1..k : writes[j].path = p
        THEN LET j == CHOOSE j \in 1..k : writes[j].path = p
             IN  [content |-> writes[j].content, mtime |-> base + step * ((j - 1) \div 2)]
        ELSE fs[p]]

\* whether and where a backend operation raises during a call
NoFail == <<>>
FailAt(k) == <<k>>

\* LocalStorage.save and S3Storage.save.  elapsed tells whether a new second
\* has begun since the last call (datetime.now() has second resolution).
\* failAt names the backend operation that raises, if one does: 0 is
\* os.makedirs, which only the local store calls, j is the j-th file or object
\* written.  S3Storage without a client or bucket returns False before any
\* backend operation.
Save(dataset, prefix, elapsed, failAt, step) ==
    LET t == now + elapsed
        base == mtick + elapsed
        writes == Writes(dataset, prefix, Timestamp(t))
        configured == backend # "unconfigured"
        done == IF ~configured THEN 0
                ELSE IF failAt = NoFail THEN Len(writes)
                ELSE IF failAt = FailAt(0) THEN 0 ELSE failAt[1] - 1
        last == IF done = 0 THEN base ELSE base + step * ((done - 1) \div 2)
    IN  /\ nsaves < MaxSaves
        /\ failAt # NoFail => failAt[1] <= Len(writes)
        /\ backend = "unconfigured" => failAt = NoFail
        /\ backend = "s3" => failAt # FailAt(0)
        /\ done <= 2 => step = 0
        /\ nsaves' = nsaves + 1
        /\ now' = t
        /\ dirs' = IF backend = "local" /\ failAt # FailAt(0)
                   THEN dirs \cup {prefix} ELSE dirs
        /\ files' = ApplyWrites(files, writes, done, base, step)
        /\ mtick' = last
        /\ saveCall' = [op |-> "save", dataset |-> dataset, prefix |-> prefix,
                        at |-> t, failed |-> failAt # NoFail,
                        ret |-> configured /\ failAt = NoFail]
        /\ loadCall' = NoCall
        /\ UNCHANGED <<backend, savers, notStorage>>

\* what may follow a prefix in the key of an object listed for it: the slash,
\* or the rest of a longer prefix and the slash
PrefixTails == {"/", "-old/"}

\* the files load() lists for a prefix: those of the directory of that name,
\* or with list_objects_v2(Prefix=prefix) the objects whose key begins with it
Under(p, prefix) ==
    IF backend = "local" THEN p.prefix = prefix
    ELSE \E tail \in PrefixTails : prefix \o tail = p.prefix \o "/"

\* os.path.exists(directory), or 'Contents' in the response of the listing
Found(prefix) ==
    CASE backend = "local" -> prefix \in dirs
      [] backend = "s3" -> \E p \in DOMAIN files : Under(p, prefix)
      [] OTHER -> FALSE

\* filename.endswith(".csv")
CsvFiles(fs, prefix) == {p \in DOMAIN fs : Under(p, prefix) /\ p.ext = "csv"}

\* a load that takes the whole name the table was saved under, without the
\* timestamp
DatasetNameWhole(p) == SubSeq(p.tokens, 1, Len(p.tokens) - 2)

\* dataset_name = filename.replace('.csv', '').split('_')[0]
DatasetName(p) == <<Head(p.tokens)>>

\* csv_files[dataset_name]
Group(fs, prefix, g) == {p \in CsvFiles(fs, prefix) : DatasetName(p) = g}
Groups(fs, prefix) == {DatasetName(p) : p \in CsvFiles(fs, prefix)}

CandidatesAny(fs, prefix, g, latest_only) == Group(fs, prefix, g)

\* a load that takes min() for max(): the least recently modified file
CandidatesOldest(fs, prefix, g, latest_only) ==
    IF latest_only
    THEN {p \in Group(fs, prefix, g) :
            \A q \in Group(fs, prefix, g) : fs[p].mtime <= fs[q].mtime}
    ELSE Group(fs, prefix, g)

\* the files load() may read for one name: with latest_only, max() returns the
\* first file of greatest mtime in listing order; without, files[0] is the
\* first in listing order, and os.listdir lists in arbitrary order
Candidates(fs, prefix, g, latest_only) ==
    IF latest_only
    THEN {p \in Group(fs, prefix, g) :
            \A q \in Group(fs, prefix, g) : fs[q].mtime <= fs[p].mtime}
    ELSE Group(fs, prefix, g)

\* a load that begins as save does, with os.makedirs(directory, exist_ok=True)
LoadMakesDirectory(prefix, latest_only, read, pick, failed) ==
    LET ret == IF ~Found(prefix) THEN <<>>
               ELSE [g \in read |-> ReadCsv(files[pick[g]].content)]
    IN  /\ loadCall' = [op |-> "load", prefix |-> prefix, latest_only |-> latest_only,
                        failed |-> Found(prefix) /\ failed, ret |-> ret]
        /\ dirs' = dirs \cup {prefix}
        /\ UNCHANGED <<now, files, mtick, saveCall, nsaves, backend, savers, notStorage>>

\* LocalStorage.load and S3Storage.load.  read are the names whose file was read and pick the file
\* read for each.  Without an exception every name of the listing is read.  When
\* a backend operation raises (failed), the names read before it are the first
\* ones of the listing: any names but all of them, os.listdir listing in
\* arbitrary order, and none if the listing itself raises.
Load(prefix, latest_only, read, pick, failed) ==
    LET ret == IF ~Found(prefix) THEN <<>>
               ELSE [g \in read |-> ReadCsv(files[pick[g]].content)]
    IN  /\ loadCall' = [op |-> "load", prefix |-> prefix, latest_only |-> latest_only,
                        failed |-> Found(prefix) /\ failed, ret |-> ret]
        /\ UNCHANGED <<now, files, dirs, mtick, saveCall, nsaves, backend, savers, notStorage>>

\* the backend operations of a save of at most two tables: os.makedirs and
\* up to four files
SaveFailures == {NoFail} \cup {FailAt(k) : k \in 0..4}

SaveStep ==
    \E dataset \in Datasets, prefix \in Prefixes, elapsed \in {0, 1}, step \in {0, 1} :
        Save(dataset, prefix, elapsed, NoFail, step)

\* the saves during which a backend operation may raise: of a dataset of one
\* or two tables, empty or not
FaultDatasets ==
    { <<Entry(<<"players">>, DfEmpty)>>,
      <<Entry(<<"players">>, DfPlain)>>,
      <<Entry(<<"players">>, DfPlain), Entry(<<"teams">>, DfText)>>,
      <<Entry(<<"players">>, DfEmpty), Entry(<<"teams">>, DfPlain)>> }

FaultySaveStep ==
    \E dataset \in FaultDatasets, prefix \in Prefixes, elapsed \in {0, 1},
       failAt \in SaveFailures :
        Save(dataset, prefix, elapsed, failAt, 0)

\* the prefixes load() is called with: one that is saved to, and the default
\* one, which never is
LoadPrefixes == Prefixes \cup {"nba-data"}

\* load() leaves the backend as it is, so a second load() before the next
\* save() returns nothing the first could not: one load() per save() is taken
LoadStep ==
    /\ loadCall = NoCall
    /\ \E prefix \in LoadPrefixes, latest_only \in BOOLEAN :
      LET names == Groups(files, prefix)
          cand == [g \in names |-> Candidates(files, prefix, g, latest_only)]
      IN  \E read \in SUBSET names, failed \in BOOLEAN :
            /\ IF failed THEN read # names \/ read = {} ELSE read = names
            /\ \E pick \in [read -> CsvFiles(files, prefix)] :
                 /\ \A g \in read : pick[g] \in cand[g]
                 /\ Load(prefix, latest_only, read, pick, failed)

StorageInit == CacheIdle /\ ResolveIdle /\ StorageIdle /\ ClientIdle /\ QueryIdle

StorageNext ==
    \/ SaveStep
    \/ LoadStep

SpecStorage == StorageInit /\ [][StorageNext]_vars

\* the same saves and loads on either configured backend
BackendsInit ==
    \E b \in {"local", "s3"} :
        CacheIdle /\ ResolveIdle /\ StorageIdleOn(b) /\ ClientIdle /\ QueryIdle

SpecBackends == BackendsInit /\ [][StorageNext]_vars

\* saves and loads under two prefixes of which one begins with the other
NestedPrefixes == {"test-data", "test-data-old"}
NestedDatasets ==
    { <<Entry(<<"players">>, DfPlain)>>,
      <<Entry(<<"players">>, DfText)>>,
      <<Entry(<<"teams">>, DfText)>> }

NestedSaveStep ==
    \E dataset \in NestedDatasets, prefix \in NestedPrefixes, elapsed \in {0, 1} :
        Save(dataset, prefix, elapsed, NoFail, 0)

NestedLoadStep ==
    /\ loadCall = NoCall
    /\ \E prefix \in NestedPrefixes, latest_only \in BOOLEAN :
      LET names == Groups(files, prefix)
          cand == [g \in names |-> Candidates(files, prefix, g, latest_only)]
      IN  \E pick \in [names -> CsvFiles(files, prefix)] :
            /\ \A g \in names : pick[g] \in cand[g]
            /\ Load(prefix, latest_only, names, pick, FALSE)

NestedNext ==
    \/ NestedSaveStep
    \/ NestedLoadStep

SpecNested == BackendsInit /\ [][NestedNext]_vars

FaultsNext ==
    \/ FaultySaveStep
    \/ LoadStep

\* save() called from several threads at once (one request each): the steps
\* of a call are its backend operations, and a second may end between any two
SaverDatasets ==
    { <<Entry(<<"players">>, DfPlain)>>,
      <<Entry(<<"players">>, DfText), Entry(<<"teams">>, DfText)>> }

\* os.makedirs(directory, exist_ok=True) and timestamp = datetime.now(); the
\* threads being alike, the call is made by the first one that is free
SaverBegin(t, dataset, prefix) ==
    /\ t \notin DOMAIN savers
    /\ \A u \in Threads : u < t => u \in DOMAIN savers
    /\ nsaves < MaxSaves
    /\ nsaves' = nsaves + 1
    /\ dirs' = IF backend = "local" THEN dirs \cup {prefix} ELSE dirs
    /\ savers' = [u \in DOMAIN savers \cup {t} |->
                    IF u = t
                    THEN [dataset |-> dataset, prefix |-> prefix, at |-> now,
                          writes |-> Writes(dataset, prefix, Timestamp(now)), done |-> 0]
                    ELSE savers[u]]
    /\ UNCHANGED <<now, files, mtick, saveCall, loadCall, backend, notStorage>>

\* df.to_csv(csv_path) or df.to_json(json_path), put_object for the object store
SaverWrite(t) ==
    /\ t \in DOMAIN savers
    /\ savers[t].done < Len(savers[t].writes)
    /\ LET w == savers[t].writes[savers[t].done + 1]
       IN  files' = [p \in DOMAIN files \cup {w.path} |->
                       IF p = w.path THEN [content |-> w.content, mtime |-> mtick]
                       ELSE files[p]]
    /\ savers' = [savers EXCEPT ![t].done = @ + 1]
    /\ UNCHANGED <<now, dirs, mtick, saveCall, loadCall, nsaves, backend, notStorage>>

\* return True
SaverEnd(t) ==
    /\ t \in DOMAIN savers
    /\ savers[t].done = Len(savers[t].writes)
    /\ saveCall' = [op |-> "save", dataset |-> savers[t].dataset,
                    prefix |-> savers[t].prefix, at |-> savers[t].at,
                    failed |-> FALSE, ret |-> TRUE]
    /\ savers' = [u \in DOMAIN savers \ {t} |-> savers[u]]
    /\ UNCHANGED <<now, files, dirs, mtick, loadCall, nsaves, backend, notStorage>>

\* a second ends
SecondEnds ==
    /\ now < MaxTime
    /\ now' = now + 1
    /\ mtick' = mtick + 1
    /\ UNCHANGED <<files, dirs, saveCall, loadCall, nsaves, backend, savers, notStorage>>

SaversInit ==
    /\ CacheIdle /\ ResolveIdle /\ ClientIdle /\ QueryIdle
    /\ \E b \in {"local", "s3"} : StorageIdleOn(b)

SaversNext ==
    \/ \E t \in Threads, dataset \in SaverDatasets, prefix \in Prefixes :
          SaverBegin(t, dataset, prefix)
    \/ \E t \in Threads : SaverWrite(t)
    \/ \E t \in Threads : SaverEnd(t)
    \/ SecondEnds

SpecSavers == SaversInit /\ [][SaversNext]_vars

\* each of the stores Settings may create, with backend operations that fail
FaultsInit ==
    /\ CacheIdle /\ ResolveIdle /\ ClientIdle /\ QueryIdle
    /\ \E b \in Backends : StorageIdleOn(b)

SpecFaults == FaultsInit /\ [][FaultsNext]_vars

----------------------------------------------------------------------------
(* C2 *)

\* a load(prefix, latest_only=true) that met no backend error returned after
\* the save() of saveCall had returned True for the same prefix
LoadedAfterSave ==
    /\ loadCall.op = "load"
    /\ loadCall.latest_only
    /\ ~loadCall.failed
    /\ saveCall.op = "save"
    /\ saveCall.ret
    /\ saveCall.prefix = loadCall.prefix

\* every cell is a number or a text that read_csv reads back as the same text
CsvStable(df) ==
    \A i \in DOMAIN df.rows : \A j \in DOMAIN df.rows[i] :
        LET cell == df.rows[i][j]
        IN  \/ cell.t = "int"
            \/ cell.t = "str" /\ cell.v # "" /\ ~IsNumeral(cell.v)

\* C2 as claimed: after save(dataset, prefix) and then load(prefix,
\* latest_only=true), every table name of a non-empty dataset is a key of the
\* loaded dataset, and the table loaded under it has the rows that were saved.
\* Stated for the datasets most favourable to the claim: no table is empty and
\* every cell survives the CSV encoding.
C2_RoundTrip ==
    (/\ LoadedAfterSave
     /\ saveCall.dataset # <<>>
     /\ \A i \in DOMAIN saveCall.dataset :
           ~IsEmpty(saveCall.dataset[i].df) /\ CsvStable(saveCall.dataset[i].df)) =>
        \A i \in DOMAIN saveCall.dataset :
            LET e == saveCall.dataset[i]
            IN  /\ e.name \in DOMAIN loadCall.ret
                /\ loadCall.ret[e.name] = e.df

\* the table name an artifact was saved for: its file name less the timestamp
SavedFor(p) == SubSeq(p.tokens, 1, Len(p.tokens) - 2)

\* the table name has no underscore, and no artifact under the prefix was saved
\* for another table whose name starts with this name and an underscore
RoundTrippable(name, prefix) ==
    /\ Len(name) = 1
    /\ \A p \in CsvFiles(files, prefix) : Head(p.tokens) = Head(name) => SavedFor(p) = name

\* C2 as amended: after save(dataset, prefix) and then load(prefix,
\* latest_only=true), every non-empty table of the dataset whose name has no
\* underscore, no artifact of a table named name_... lying under the prefix, is
\* a key of the loaded dataset; the table loaded under it is what read_csv
\* reads from the CSV text written by this save (not by an earlier one), and it
\* has the rows that were saved when every cell survives the CSV encoding.
C2_RoundTripAmended ==
    LoadedAfterSave =>
        \A i \in DOMAIN saveCall.dataset :
            LET e == saveCall.dataset[i]
            IN  (~IsEmpty(e.df) /\ RoundTrippable(e.name, saveCall.prefix)) =>
                    /\ e.name \in DOMAIN loadCall.ret
                    /\ loadCall.ret[e.name] = ReadCsv(ToCsv(e.df))
                    /\ CsvStable(e.df) => loadCall.ret[e.name] = e.df

\* the second of two saves of the table players, made a second after the first
\* with other rows, was loaded back
C2_Witness ==
    /\ LoadedAfterSave
    /\ nsaves = 2
    /\ saveCall.dataset = <<Entry(<<"players">>, DfPlain)>>
    /\ RoundTrippable(<<"players">>, saveCall.prefix)
    /\ \E p \in CsvFiles(files, saveCall.prefix) :
          /\ SavedFor(p) = <<"players">>
          /\ files[p].content = ToCsv(DfText)
    /\ loadCall.ret = [g \in {<<"players">>} |-> DfPlain]

----------------------------------------------------------------------------
(* core/settings.py and services/nba/nba_api_client.py: the data           *)
(* retriever.  A dataset is a function from table names to tables, the     *)
(* empty dict is <<>>.  A player or team name is the sequence of its       *)
(* characters, as the stat names are.                                      *)

\* how a call ends
Returned(v) == [kind |-> "return", value |-> v]
Raised(exc) == [kind |-> "raise", exc |-> exc]

\* NBASettings.get_current_season(), on a day of the 2023-24 season
DEFAULT_SEASON == "2023-24"
\* NBASettings.get_season_list(num_seasons=3)
DEFAULT_SEASONS_LIST == <<"2023-24", "2022-23", "2021-22">>

\* the data attributes of the nba_settings object: the class defines
\* DEFAULT_SEASON and DEFAULT_SEASONS_LIST, and __init__ sets the same two
nba_settings ==
    [DEFAULT_SEASON |-> DEFAULT_SEASON, DEFAULT_SEASONS_LIST |-> DEFAULT_SEASONS_LIST]

\* obj.name
GetAttr(obj, name) ==
    IF name \in DOMAIN obj THEN Returned(obj[name]) ELSE Raised("AttributeError")

\* the tables storage.load returns
PlayerStats ==
    [cols |-> <<"PLAYER_NAME", "season", "PTS_PER_GAME">>,
     rows |-> << <<PyStr(<<"A", "l">>), PyStr("2023-24"), PyInt(30)>>,
                 <<PyStr(<<"A", "l">>), PyStr("2022-23"), PyInt(25)>>,
                 <<PyStr(<<"B", "o">>), PyStr("2023-24"), PyInt(20)>> >>]
TeamStats ==
    [cols |-> <<"TEAM_NAME", "season", "PTS_PER_GAME">>,
     rows |-> << <<PyStr(<<"H", "a", "w", "k", "s">>), PyStr("2023-24"), PyInt(110)>>,
                 <<PyStr(<<"N", "e", "t", "s">>), PyStr("2023-24"), PyInt(120)>>,
                 <<PyStr(<<"H", "a", "w", "k", "s">>), PyStr("2022-23"), PyInt(115)>>,
                 <<PyStr(<<"N", "e", "t", "s">>), PyStr("2022-23"), PyInt(115)>> >>]
PlayerStatsNoSeason ==
    [cols |-> <<"PLAYER_NAME", "PTS_PER_GAME">>,
     rows |-> << <<PyStr(<<"A", "l">>), PyInt(30)>> >>]

FullDataset == ("player" :> PlayerStats) @@ ("team" :> TeamStats)
PartialDataset == ("player" :> PlayerStatsNoSeason)
ClientDatasets == {<<>>, FullDataset, PartialDataset}

\* how self.storage.load(prefix, latest_only) ends
LoadOutcomes == {Returned(d) : d \in ClientDatasets} \cup {Raised("Exception")}

ClientPrefixes == {"nba-data", "test-prefix"}

CacheKeySameForBothModes(prefix, latest_only) == "dataset:" \o prefix \o ":latest"

\* f"dataset:{prefix}:latest" if latest_only else f"dataset:{prefix}:all"
CacheKey(prefix, latest_only) ==
    IF latest_only THEN "dataset:" \o prefix \o ":latest"
    ELSE "dataset:" \o prefix \o ":all"

\* In what a call leaves, loads counts the calls of storage.load and
\* load_data those of self.load_data().

\* the truth value of a cached object or of a dict
Truthy(v) == v # PyNone /\ v # <<>>

\* what a call that does not load leaves
NoLoad(s, h, cd, ld) ==
    [ret |-> cd, store |-> s, hist |-> h, cached_data |-> cd, loaded |-> ld, loads |-> 0,
     load_data |-> 0]

LoadDataIgnoresCache(s, h, cd, ld, prefix, latest_only, outcome, t) ==
    LET key == CacheKey(prefix, latest_only)
    IN  IF outcome.kind = "raise"
        THEN [ret |-> <<>>, store |-> s, hist |-> h, cached_data |-> cd,
              loaded |-> ld, loads |-> 1, load_data |-> 1]
        ELSE [ret |-> outcome.value,
              store |-> CacheSet(s, key, outcome.value, None, t),
              hist |-> HistSet(h, key, outcome.value, None, t),
              cached_data |-> outcome.value,
              loaded |-> (<<prefix, latest_only>> :> outcome.value) @@ ld,
              loads |-> 1, load_data |-> 1]

\* NBAApiClient.load_data: what it returns, what it leaves of the cache and
\* of cached_data, and how many times it called storage.load; outcome is how
\* storage.load ends if it is called
LoadDataRun(s, h, cd, ld, prefix, latest_only, outcome, t) ==
    LET key == CacheKey(prefix, latest_only)
        cached == CacheGetRet(s, key, PyNone, t)
        s1 == CacheGetStore(s, key, t)
    IN  IF Truthy(cached)
        THEN [ret |-> cached, store |-> s1, hist |-> h, cached_data |-> cached,
              loaded |-> ld, loads |-> 0, load_data |-> 1]
        ELSE IF outcome.kind = "raise"
        THEN [ret |-> <<>>, store |-> s1, hist |-> h, cached_data |-> cd,
              loaded |-> ld, loads |-> 1, load_data |-> 1]
        ELSE [ret |-> outcome.value,
              store |-> CacheSet(s1, key, outcome.value, None, t),
              hist |-> HistSet(h, key, outcome.value, None, t),
              cached_data |-> outcome.value,
              loaded |-> (<<prefix, latest_only>> :> outcome.value) @@ ld,
              loads |-> 1, load_data |-> 1]

\* a call that loads whatever cached_data holds
EnsureLoadedAlways(s, h, cd, ld, outcome, t) ==
    LoadDataRun(s, h, cd, ld, "nba-data", TRUE, outcome, t)

\* if not self.cached_data: self.load_data()
EnsureLoaded(s, h, cd, ld, outcome, t) ==
    IF Truthy(cd) THEN NoLoad(s, h, cd, ld)
    ELSE LoadDataRun(s, h, cd, ld, "nba-data", TRUE, outcome, t)

\* how storage.load ends matters to a call only if the call loads
LoadOutcomesFor(cd) == IF Truthy(cd) THEN {Raised("Exception")} ELSE LoadOutcomes

\* df.columns, df[column]
HasCol(df, c) == \E j \in DOMAIN df.cols : df.cols[j] = c
ColIndex(df, c) == CHOOSE j \in DOMAIN df.cols : df.cols[j] = c

\* self.cached_data.get(key, pd.DataFrame())
Lookup(ds, key) == IF key \in DOMAIN ds THEN ds[key] ELSE DfEmpty

\* Series.isin(values)
IsIn(cell, values) == \E i \in DOMAIN values : cell = PyStr(values[i])
\* Series.str.lower().isin([v.lower() for v in values])
LowerIsIn(cell, names) ==
    cell.t = "str" /\ \E i \in DOMAIN names : Lower(cell.v) = Lower(names[i])

\* df[name.str.lower().isin(...) & season.isin(seasons)]
FilterRows(df, name_col, names, seasons) ==
    [cols |-> df.cols,
     rows |-> SelectSeq(df.rows,
                LAMBDA r : /\ LowerIsIn(r[ColIndex(df, name_col)], names)
                           /\ IsIn(r[ColIndex(df, "season")], seasons))]

\* the body get_player_stats and get_team_stats share, after the load
EntityStats(cd, attr, name_col, names, seasons) ==
    LET key == GetAttr(nba_settings, attr)
    IN  IF key.kind = "raise" THEN key
        ELSE LET df == Lookup(cd, key.value)
             IN  IF IsEmpty(df) THEN Returned(DfEmpty)
                 ELSE IF ~HasCol(df, name_col) THEN Returned(DfEmpty)
                 ELSE IF ~HasCol(df, "season") THEN Returned(DfEmpty)
                 ELSE Returned(FilterRows(df, name_col, names, seasons))

get_player_stats(cd, players, seasons) ==
    EntityStats(cd, "PLAYER_STATS_DF", "PLAYER_NAME", players, seasons)
get_team_stats(cd, teams, seasons) ==
    EntityStats(cd, "TEAM_STATS_DF", "TEAM_NAME", teams, seasons)

\* the rows at the kept positions, in order
RECURSIVE RowsAt(_, _, _)
RowsAt(rows, keep, i) ==
    IF i > Len(rows) THEN <<>>
    ELSE (IF i \in keep THEN <<rows[i]>> ELSE <<>>) \o RowsAt(rows, keep, i + 1)

\* filtered[["TEAM_NAME", "season", stat]]
Project(df, rows, columns) ==
    [cols |-> columns,
     rows |-> [i \in DOMAIN rows |->
                 [j \in DOMAIN columns |-> rows[i][ColIndex(df, columns[j])]]]]

\* sort_values(by=stat, ascending=False): the default sort is not stable, so
\* rows of equal value come out in either order
SortedDescending(rows, j) ==
    { [i \in DOMAIN rows |-> rows[p[i]]] : p \in
        { q \in Permutations(DOMAIN rows) :
            \A a, b \in DOMAIN rows : a < b => rows[q[a]][j].v >= rows[q[b]][j].v } }

\* groupby("season").head(n): of every season the first n rows (all but the
\* last -n for a negative n), left in the order they are in
HeadPerSeason(rows, j, n) ==
    LET Before(i) == Cardinality({k \in 1..(i - 1) : rows[k][j] = rows[i][j]})
        Size(i) == Cardinality({k \in DOMAIN rows : rows[k][j] = rows[i][j]})
        keep == {i \in DOMAIN rows :
                    IF n >= 0 THEN Before(i) < n ELSE Before(i) < Size(i) + n}
    IN  RowsAt(rows, keep, 1)

\* NBAApiClient.get_top_teams after the load: the ways it can end
get_top_teams(cd, seasons, top_n, stat) ==
    LET key == GetAttr(nba_settings, "TEAM_STATS_DF")
    IN  IF key.kind = "raise" THEN {key}
        ELSE
        LET team_df == Lookup(cd, key.value)
            column == ResolveStatColumn(stat, "per_game")
            filtered == SelectSeq(team_df.rows,
                           LAMBDA r : IsIn(r[ColIndex(team_df, "season")], seasons))
            top == Project(team_df, filtered, <<"TEAM_NAME", "season", column>>)
        IN  IF IsEmpty(team_df) THEN {Returned(DfEmpty)}
            ELSE IF ~HasCol(team_df, column) THEN {Returned(DfEmpty)}
            ELSE IF ~HasCol(team_df, "season") THEN {Returned(DfEmpty)}
            ELSE IF filtered = <<>> THEN {Returned(DfEmpty)}
            ELSE IF ~HasCol(team_df, "TEAM_NAME") THEN {Raised("KeyError")}
            ELSE { Returned([cols |-> top.cols, rows |-> HeadPerSeason(sorted, 2, top_n)]) :
                     sorted \in SortedDescending(top.rows, 3) }

\* NBAApiClient.get_top_players: the body is pass
get_top_players(cd, seasons, top_n, stat) == {Returned(PyNone)}

\* the arguments the retriever is called with
PlayerLists == { <<>>, << <<"A", "L">>, <<"b", "o">> >> }
TeamLists == { <<>>, << <<"N", "E", "T", "S">>, <<"h", "a", "w", "k", "s">> >> }
SeasonLists == { <<"2023-24">>, <<"2022-23", "2023-24">> }
TopNs == {0, 1, 2}
TopStats == { <<"p", "o", "i", "n", "t", "s">> }

\* what a call leaves of the cache and of the client
ClientEffect(run) ==
    /\ store' = run.store
    /\ hist' = run.hist
    /\ cached_data' = run.cached_data
    /\ loaded' = run.loaded

LoadData(prefix, latest_only, outcome) ==
    LET run == LoadDataRun(store, hist, cached_data, loaded, prefix, latest_only, outcome, now)
    IN  /\ ClientEffect(run)
        /\ clientCall' = [op |-> "load_data", prefix |-> prefix, latest_only |-> latest_only,
                          storage |-> outcome, loads |-> run.loads,
                          end |-> Returned(run.ret)]
        /\ UNCHANGED <<notClient, queryVars>>

CallPlayerStats(players, seasons, outcome) ==
    LET run == EnsureLoaded(store, hist, cached_data, loaded, outcome, now)
    IN  /\ ClientEffect(run)
        /\ clientCall' = [op |-> "get_player_stats", names |-> players, seasons |-> seasons,
                          loads |-> run.loads, load_data |-> run.load_data,
                          end |-> get_player_stats(run.cached_data, players, seasons)]

CallTeamStats(teams, seasons, outcome) ==
    LET run == EnsureLoaded(store, hist, cached_data, loaded, outcome, now)
    IN  /\ ClientEffect(run)
        /\ clientCall' = [op |-> "get_team_stats", names |-> teams, seasons |-> seasons,
                          loads |-> run.loads, load_data |-> run.load_data,
                          end |-> get_team_stats(run.cached_data, teams, seasons)]

CallTopTeams(seasons, top_n, stat, outcome) ==
    LET run == EnsureLoaded(store, hist, cached_data, loaded, outcome, now)
    IN  /\ ClientEffect(run)
        /\ \E end \in get_top_teams(run.cached_data, seasons, top_n, stat) :
             clientCall' = [op |-> "get_top_teams", seasons |-> seasons, top_n |-> top_n,
                            stat |-> stat, loads |-> run.loads,
                            load_data |-> run.load_data, end |-> end]

CallTopPlayers(seasons, top_n, stat) ==
    /\ \E end \in get_top_players(cached_data, seasons, top_n, stat) :
         clientCall' = [op |-> "get_top_players", seasons |-> seasons, top_n |-> top_n,
                        stat |-> stat, loads |-> 0, end |-> end]
    /\ UNCHANGED <<store, hist, cached_data, loaded>>

\* NBAApiClient.get_top_performers
CallTopPerformers(seasons, top_n, stat, entity, outcome) ==
    IF entity = "player" THEN CallTopPlayers(seasons, top_n, stat)
    ELSE IF entity = "team" THEN CallTopTeams(seasons, top_n, stat, outcome)
    ELSE /\ clientCall' = [op |-> "get_top_performers", loads |-> 0,
                           end |-> Returned(DfEmpty)]
         /\ UNCHANGED <<store, hist, cached_data, loaded>>

GetPlayerStats(players, seasons, outcome) ==
    CallPlayerStats(players, seasons, outcome) /\ UNCHANGED <<notClient, queryVars>>
GetTeamStats(teams, seasons, outcome) ==
    CallTeamStats(teams, seasons, outcome) /\ UNCHANGED <<notClient, queryVars>>
GetTopTeams(seasons, top_n, stat, outcome) ==
    CallTopTeams(seasons, top_n, stat, outcome) /\ UNCHANGED <<notClient, queryVars>>
GetTopPlayers(seasons, top_n, stat) ==
    CallTopPlayers(seasons, top_n, stat) /\ UNCHANGED <<notClient, queryVars>>

ClientInit == CacheIdle /\ ResolveIdle /\ StorageIdle /\ ClientIdle /\ QueryIdle

LoadDataStep ==
    \E prefix \in ClientPrefixes, latest_only \in BOOLEAN, outcome \in LoadOutcomes :
        LoadData(prefix, latest_only, outcome)
GetPlayerStatsStep ==
    \E players \in PlayerLists, seasons \in SeasonLists,
       outcome \in LoadOutcomesFor(cached_data) :
        GetPlayerStats(players, seasons, outcome)
GetTeamStatsStep ==
    \E teams \in TeamLists, seasons \in SeasonLists,
       outcome \in LoadOutcomesFor(cached_data) :
        GetTeamStats(teams, seasons, outcome)
GetTopTeamsStep ==
    \E seasons \in SeasonLists, top_n \in TopNs, stat \in TopStats,
       outcome \in LoadOutcomesFor(cached_data) :
        GetTopTeams(seasons, top_n, stat, outcome)
GetTopPlayersStep ==
    \E seasons \in SeasonLists, top_n \in TopNs, stat \in TopStats :
        GetTopPlayers(seasons, top_n, stat)

ClientNext ==
    \/ LoadDataStep
    \/ GetPlayerStatsStep
    \/ GetTeamStatsStep
    \/ GetTopTeamsStep
    \/ GetTopPlayersStep

SpecClient == ClientInit /\ [][ClientNext]_vars

\* NBAApiClient(storage): another retriever is made in the process, with a
\* storage of its own, and is the one the next calls are made on
NewRetriever ==
    /\ cached_data' = <<>>
    /\ clientCall' = [op |-> "init"]
    /\ UNCHANGED <<store, hist, loaded, notClient, queryVars>>

\* a collect_and_store_dataset that caches the dataset before it is saved
CollectRunCachesFirst(s, h, collected, prefix, saved, t) ==
    LET key == "dataset:" \o prefix
    IN  IF collected.kind = "raise"
        THEN [end |-> collected, store |-> s, hist |-> h, saves |-> 0]
        ELSE IF ~Truthy(collected.value)
        THEN [end |-> Returned(FALSE), store |-> s, hist |-> h, saves |-> 0]
        ELSE [end |-> saved,
              store |-> CacheSet(s, key, collected.value, None, t),
              hist |-> HistSet(h, key, collected.value, None, t), saves |-> 1]

\* a collect_and_store_dataset that caches the dataset under the key
\* load_data reads for the latest snapshots
CollectRunRefreshes(s, h, collected, prefix, saved, t) ==
    LET key == CacheKey(prefix, TRUE)
    IN  IF collected.kind = "raise"
        THEN [end |-> collected, store |-> s, hist |-> h, saves |-> 0]
        ELSE IF ~Truthy(collected.value)
        THEN [end |-> Returned(FALSE), store |-> s, hist |-> h, saves |-> 0]
        ELSE IF saved.kind = "raise" \/ ~saved.value
        THEN [end |-> saved, store |-> s, hist |-> h, saves |-> 1]
        ELSE [end |-> saved,
              store |-> CacheSet(s, key, collected.value, None, t),
              hist |-> HistSet(h, key, collected.value, None, t), saves |-> 1]

\* NBAApiClient.collect_and_store_dataset: how it ends, what it leaves of the
\* cache and how many times it called storage.save; collected is how
\* collector.collect_dataset ends and saved how storage.save ends if called
CollectRun(s, h, collected, prefix, saved, t) ==
    LET key == "dataset:" \o prefix
    IN  IF collected.kind = "raise"
        THEN [end |-> collected, store |-> s, hist |-> h, saves |-> 0]
        ELSE IF ~Truthy(collected.value)
        THEN [end |-> Returned(FALSE), store |-> s, hist |-> h, saves |-> 0]
        ELSE IF saved.kind = "raise" \/ ~saved.value
        THEN [end |-> saved, store |-> s, hist |-> h, saves |-> 1]
        ELSE [end |-> saved,
              store |-> CacheSet(s, key, collected.value, None, t),
              hist |-> HistSet(h, key, collected.value, None, t), saves |-> 1]

\* NBAApiClient.collect_and_store_dataset.  dataset is what the collector
\* returns and saved what storage.save returns.
CollectAndStoreDataset(dataset, prefix, saved) ==
    LET run == CollectRun(store, hist, Returned(dataset), prefix, Returned(saved), now)
    IN  /\ store' = run.store
        /\ hist' = run.hist
        /\ clientCall' = [op |-> "collect_and_store_dataset", prefix |-> prefix,
                          end |-> run.end]
        /\ UNCHANGED <<cached_data, loaded, notClient, queryVars>>

\* how collector.collect_dataset(seasons) and storage.save(dataset, prefix) end
Collections == {Returned(d) : d \in ClientDatasets} \cup {Raised("RuntimeError")}
SaveEnds == {Returned(TRUE), Returned(FALSE), Raised("OSError")}

\* NBAApiClient.setup_nba_dataset: False for a result that is not true and
\* for every exception
SetupNbaDataset(prefix, collected, saved) ==
    LET run == CollectRun(store, hist, collected, prefix, saved, now)
        success == run.end.kind = "return" /\ run.end.value
    IN  /\ store' = run.store
        /\ hist' = run.hist
        /\ clientCall' = [op |-> "setup_nba_dataset", prefix |-> prefix,
                          collected |-> collected, saved |-> saved, saves |-> run.saves,
                          end |-> Returned(success)]
        /\ UNCHANGED <<cached_data, loaded, notClient, queryVars>>

\* the retrievers of one process, one after the other, on the default prefix
RetrieverLoadStep ==
    \E latest_only \in BOOLEAN, outcome \in LoadOutcomes :
        LoadData("nba-data", latest_only, outcome)
CollectStep ==
    \E dataset \in ClientDatasets, saved \in BOOLEAN :
        CollectAndStoreDataset(dataset, "nba-data", saved)
SetupStep ==
    \E collected \in Collections, saved \in SaveEnds :
        SetupNbaDataset("nba-data", collected, saved)

RetrieversNext ==
    \/ NewRetriever
    \/ RetrieverLoadStep
    \/ CollectStep
    \/ SetupStep

SpecRetrievers == ClientInit /\ [][RetrieversNext]_vars

----------------------------------------------------------------------------
(* C3 *)

\* the step is a call load_data(prefix, latest_only)
IsLoadData(prefix, latest_only) ==
    /\ clientCall'.op = "load_data"
    /\ clientCall'.prefix = prefix
    /\ clientCall'.latest_only = latest_only

\* an earlier load_data stored a dataset for (prefix, latest_only)
StoredBefore(prefix, latest_only) == <<prefix, latest_only>> \in DOMAIN loaded

\* the entry the cache holds after the call is the returned dataset, kept
\* with no expiry, and the other mode's entry is as it was
StoredAfter(prefix, latest_only) ==
    /\ CacheKey(prefix, latest_only) \in DOMAIN store'
    /\ store'[CacheKey(prefix, latest_only)] =
          [value |-> clientCall'.end.value, expiry |-> None]
    /\ StoredBefore(prefix, latest_only)'
    /\ loaded'[<<prefix, latest_only>>] = clientCall'.end.value
    /\ StoredBefore(prefix, ~latest_only)' = StoredBefore(prefix, ~latest_only)

\* C3 as claimed: a load_data(prefix, latest_only) made after an earlier
\* load_data stored an entry for (prefix, latest_only) does not call
\* storage.load and returns the stored dataset; any other load_data calls
\* storage.load exactly once and stores its result under the key with no
\* expiry.  An entry stored for one mode does not serve the other.
C3_CacheWrapping ==
    [][\A prefix \in ClientPrefixes, latest_only \in BOOLEAN :
         IsLoadData(prefix, latest_only) =>
            IF StoredBefore(prefix, latest_only)
            THEN /\ clientCall'.loads = 0
                 /\ clientCall'.end = Returned(loaded[<<prefix, latest_only>>])
            ELSE /\ clientCall'.loads = 1
                 /\ StoredAfter(prefix, latest_only)]_vars

\* a non-empty dataset is what an earlier load_data stored
HitBefore(prefix, latest_only) ==
    /\ StoredBefore(prefix, latest_only)
    /\ loaded[<<prefix, latest_only>>] # <<>>

\* C3 as amended: a load_data(prefix, latest_only) made after an earlier
\* load_data stored a non-empty dataset for (prefix, latest_only) does not
\* call storage.load, returns that dataset and leaves the cache as it is; any
\* other load_data calls storage.load exactly once and, when that call
\* returns, returns its result and stores it under the key with no expiry;
\* when it raises, load_data returns the empty dataset and stores nothing.
\* An entry stored for one mode does not serve the other.
C3_CacheWrappingAmended ==
    [][\A prefix \in ClientPrefixes, latest_only \in BOOLEAN :
         IsLoadData(prefix, latest_only) =>
            IF HitBefore(prefix, latest_only)
            THEN /\ clientCall'.loads = 0
                 /\ clientCall'.end = Returned(loaded[<<prefix, latest_only>>])
                 /\ store' = store
            ELSE /\ clientCall'.loads = 1
                 /\ \/ StoredAfter(prefix, latest_only)
                    \/ /\ clientCall'.end = Returned(<<>>)
                       /\ store' = store
                       /\ loaded' = loaded]_vars

\* a load_data was served from the cache while only the other mode's key was
\* missing: the entry for latest_only=true is there, the one for false is not
C3_Witness ==
    /\ clientCall.op = "load_data"
    /\ clientCall.latest_only
    /\ clientCall.loads = 0
    /\ clientCall.end = Returned(FullDataset)
    /\ loaded = (<<clientCall.prefix, TRUE>> :> FullDataset)
    /\ DOMAIN store = {CacheKey(clientCall.prefix, TRUE)}

----------------------------------------------------------------------------
(* C10 *)

\* the team table of the loaded dataset
TeamTable == CHOOSE name \in DOMAIN cached_data : HasCol(cached_data[name], "TEAM_NAME")
LoadedTeams == cached_data[TeamTable]

\* the season and the value of a row of the result
SeasonOf(row) == row[2].v
ValueOf(row) == row[3].v

\* C10: a get_top_teams call with top_n >= 1 on a loaded team table returns
\* a table with at most top_n rows per season, all of requested seasons, in
\* descending order of the resolved stat column within each season, and no
\* row of the team table of a returned season has a larger value than a
\* returned row of that season.
C10_TopN ==
    (/\ clientCall.op = "get_top_teams"
     /\ clientCall.top_n >= 1
     /\ \E name \in DOMAIN cached_data : HasCol(cached_data[name], "TEAM_NAME")) =>
        /\ clientCall.end.kind = "return"
        /\ LET rows == clientCall.end.value.rows
               column == ResolveStatColumn(clientCall.stat, "per_game")
           IN  /\ \A i \in DOMAIN rows :
                     /\ \E k \in DOMAIN clientCall.seasons : SeasonOf(rows[i]) = clientCall.seasons[k]
                     /\ Cardinality({j \in DOMAIN rows : SeasonOf(rows[j]) = SeasonOf(rows[i])})
                            <= clientCall.top_n
               /\ \A i, j \in DOMAIN rows :
                     (i < j /\ SeasonOf(rows[i]) = SeasonOf(rows[j])) =>
                         ValueOf(rows[i]) >= ValueOf(rows[j])
               /\ HasCol(LoadedTeams, column) =>
                     \A i \in DOMAIN rows, k \in DOMAIN LoadedTeams.rows :
                        LET other == LoadedTeams.rows[k]
                        IN  (/\ other[ColIndex(LoadedTeams, "season")].v = SeasonOf(rows[i])
                             /\ other[ColIndex(LoadedTeams, column)].v > ValueOf(rows[i])) =>
                                \E j \in DOMAIN rows :
                                    /\ rows[j][1] = other[ColIndex(LoadedTeams, "TEAM_NAME")]
                                    /\ SeasonOf(rows[j]) = SeasonOf(rows[i])

----------------------------------------------------------------------------
(* services/llm/query_processor.py: QueryProcessor.query and its three     *)
(* stages.  The Python None of an optional text field is "None".           *)

QueryIntents == {"player_stats", "player_comparison", "team_stats", "team_comparison",
                 "top_performers", "season_analysis"}
Timeframes == {"season", "career", "game", "recent"}
ComparisonTypes == {"vs", "ranking", "top_n"}
EntityTypes == {"player", "team"}

\* a JSON object of the LLM with the fields of QueryAnalysis, the defaults
\* of the fields it left out filled in
Raw(intent, players, teams, seasons, stats, stats_type, top_n, entity) ==
    [intent |-> intent, players |-> players, teams |-> teams, seasons |-> seasons,
     stats |-> stats, stats_type |-> stats_type, timeframe |-> "season",
     comparison_type |-> "None", top_n |-> top_n, entity |-> entity]

RawAnalyses ==
    { Raw("player_stats", << <<"a", "l">> >>, <<>>, <<>>, <<>>, "None", 10, "player"),
      Raw("player_comparison", << <<"A", "L">>, <<"b", "o">> >>, <<>>,
          <<"2022-23", "2023-24">>, <<>>, "per_game", 10, "player"),
      Raw("player_stats", <<>>, <<>>, <<"2023-24">>, <<>>, "None", 10, "player"),
      Raw("team_stats", <<>>, << <<"n", "e", "t", "s">> >>, <<"2023-24">>, <<>>,
          "None", 10, "team"),
      Raw("top_performers", <<>>, <<>>, <<"2022-23", "2023-24">>,
          << <<"p", "o", "i", "n", "t", "s">> >>, "totals", 2, "team"),
      Raw("top_performers", <<>>, <<>>, <<>>, <<>>, "None", 10, "player"),
      Raw("top_performers", <<>>, <<>>, <<"2023-24">>, <<>>, "per_game", 0, "team"),
      Raw("season_analysis", <<>>, <<>>, <<>>, <<>>, "None", 10, "player"),
      Raw("general", <<>>, <<>>, <<>>, <<>>, "None", 10, "player") }

\* the validation of the fields of QueryAnalysis that are enums
Valid(raw) ==
    /\ raw.intent \in QueryIntents
    /\ raw.timeframe \in Timeframes
    /\ raw.comparison_type \in ComparisonTypes \cup {"None"}
    /\ raw.entity \in EntityTypes

\* what the LLM does when the analyzer calls it: it answers with a JSON
\* object, with text that is no JSON, or the call fails
Extractions ==
    {[kind |-> "object", raw |-> r] : r \in RawAnalyses}
        \cup {[kind |-> "malformed"], [kind |-> "error"]}

\* structured_llm.invoke(messages): the ways it can end.  Which exception
\* reports a text that does not parse is the library's choice.
Invoke(ext) ==
    IF ext.kind = "object"
    THEN IF Valid(ext.raw) THEN {Returned(ext.raw)} ELSE {Raised("ValidationError")}
    ELSE IF ext.kind = "malformed"
    THEN {Raised("JSONDecodeError"), Raised("OutputParserException")}
    ELSE {Raised("APIConnectionError")}

FillSeasonsNever(result) == result

\* if not result.get("seasons"): result["seasons"] = [nba_settings.DEFAULT_SEASON]
FillSeasons(result) ==
    IF result.seasons = <<>>
    THEN [result EXCEPT !.seasons = <<nba_settings.DEFAULT_SEASON>>]
    ELSE result

\* the dict returned on json.JSONDecodeError
Fallback ==
    [intent |-> "general", players |-> <<>>, teams |-> <<>>,
     seasons |-> <<nba_settings.DEFAULT_SEASON>>, stats |-> <<>>, timeframe |-> "season"]

\* QueryProcessor._analyze_query, given how structured_llm.invoke ended
analyze_query(end) ==
    IF end.kind = "return" THEN Returned(FillSeasons(end.value))
    ELSE IF end.exc = "JSONDecodeError" THEN Returned(Fallback)
    ELSE end

\* dict.get(name, default)
Field(d, name, default) == IF name \in DOMAIN d THEN d[name] ELSE default

\* a fetch without its try: what the retriever raises leaves the stage
FetchEndUncaught(end) ==
    IF end.kind = "raise" THEN end
    ELSE IF end.value = PyNone THEN Raised("TypeError")
    ELSE end.value

\* what _fetch_relevant_data makes of how the retriever's call ended:
\* len(data) raises on None, and every exception gives an empty table
FetchEnd(end) ==
    IF end.kind = "raise" THEN DfEmpty
    ELSE IF end.value = PyNone THEN DfEmpty
    ELSE end.value

NoDataAnswer == "No relevant NBA data found to answer your question."
ErrorAnswer == "Sorry, I encountered an error while generating the answer."

\* how self.llm.invoke(messages) of the answer stage ends
Replies == {Returned("Al averaged 30 points in 2023-24."), Raised("APIConnectionError")}

\* data.head(10).to_dict(orient="records") without the head(10)
DataSampleWhole(d) ==
    [i \in DOMAIN d.rows |->
       [c \in {d.cols[j] : j \in DOMAIN d.cols} |->
          d.rows[i][CHOOSE j \in DOMAIN d.cols :
                       d.cols[j] = c /\ \A k \in DOMAIN d.cols : d.cols[k] = c => k <= j]]]

\* data.head(10).to_dict(orient="records"): of the first ten rows, one dict
\* per row from column name to value (of columns of one name, the last)
DataSample(d) ==
    [i \in 1..(IF Len(d.rows) < 10 THEN Len(d.rows) ELSE 10) |->
       [c \in {d.cols[j] : j \in DOMAIN d.cols} |->
          d.rows[i][CHOOSE j \in DOMAIN d.cols :
                       d.cols[j] = c /\ \A k \in DOMAIN d.cols : d.cols[k] = c => k <= j]]]

GenerateRunAlwaysAsks(a, d, reply) ==
    IF reply.kind = "raise"
    THEN [answer |-> ErrorAnswer, invoked |-> 1, sample |-> DataSample(d)]
    ELSE [answer |-> reply.value, invoked |-> 1, sample |-> DataSample(d)]

\* QueryProcessor._generate_answer: what it returns and how often it
\* invoked the LLM; reply is how self.llm.invoke ends if it is called
GenerateRun(a, d, reply) ==
    IF IsEmpty(d) THEN [answer |-> NoDataAnswer, invoked |-> 0, sample |-> NoCall]
    ELSE IF reply.kind = "raise"
    THEN [answer |-> ErrorAnswer, invoked |-> 1, sample |-> DataSample(d)]
    ELSE [answer |-> reply.value, invoked |-> 1, sample |-> DataSample(d)]

\* QueryProcessor._generate_answer
generate_answer(a, d, reply) == GenerateRun(a, d, reply).answer

\* query(): analysis = self._analyze_query(query)
Analyze(ext) ==
    /\ qpc = "idle"
    /\ extraction' = ext
    /\ \E end \in Invoke(ext) : analysis' = analyze_query(end)
    /\ qpc' = IF analysis'.kind = "raise" THEN "raised" ELSE "analyzed"
    /\ llmCalls' = [llmCalls EXCEPT !.analyze = @ + 1]
    /\ UNCHANGED <<data, answer, data_sample, cacheVars, resolveVars, storageVars, clientVars>>

\* query(): data = self._fetch_relevant_data(analysis)
Fetch(outcome) ==
    LET a == analysis.value
        intent == Field(a, "intent", "player_stats")
        players == Field(a, "players", <<>>)
        teams == Field(a, "teams", <<>>)
        seasons == Field(a, "seasons", <<nba_settings.DEFAULT_SEASON>>)
        top_n == Field(a, "top_n", 10)
        stats == Field(a, "stats", <<>>)
        entity == Field(a, "entity", "player")
        stat == IF stats # <<>> THEN stats[1] ELSE <<"p", "o", "i", "n", "t", "s">>
    IN  /\ qpc = "analyzed"
        /\ IF intent \in {"player_comparison", "player_stats"}
           THEN /\ CallPlayerStats(players, seasons, outcome)
                /\ data' = FetchEnd(clientCall'.end)
           ELSE IF intent \in {"team_comparison", "team_stats"}
           THEN /\ CallTeamStats(teams, seasons, outcome)
                /\ data' = FetchEnd(clientCall'.end)
           ELSE IF intent = "top_performers"
           THEN /\ CallTopPerformers(seasons, top_n, stat, entity, outcome)
                /\ data' = FetchEnd(clientCall'.end)
           ELSE /\ data' = DfEmpty
                /\ UNCHANGED <<store, hist, clientVars>>
        /\ qpc' = "fetched"
        /\ UNCHANGED <<extraction, analysis, answer, data_sample, llmCalls, notClient>>

\* query(): answer = self._generate_answer(analysis=analysis, data=data)
Generate(reply) ==
    /\ qpc = "fetched"
    /\ answer' = generate_answer(analysis.value, data, reply)
    /\ data_sample' = GenerateRun(analysis.value, data, reply).sample
    /\ llmCalls' = [llmCalls EXCEPT !.answer = @ + GenerateRun(analysis.value, data, reply).invoked]
    /\ qpc' = "done"
    /\ UNCHANGED <<extraction, analysis, data, cacheVars, resolveVars, storageVars, clientVars>>

\* query() has returned or raised; the next call of query() starts afresh
Finish ==
    /\ qpc \in {"done", "raised"}
    /\ qpc' = "idle"
    /\ extraction' = NoCall
    /\ analysis' = NoCall
    /\ data' = NoCall
    /\ answer' = ""
    /\ data_sample' = NoCall
    /\ llmCalls' = NoLlmCalls
    /\ UNCHANGED <<cacheVars, resolveVars, storageVars, clientVars>>

QueryInit == CacheIdle /\ ResolveIdle /\ StorageIdle /\ ClientIdle /\ QueryIdle

AnalyzeStep == \E ext \in Extractions : Analyze(ext)
FetchStep == \E outcome \in LoadOutcomes : Fetch(outcome)
GenerateStep == \E reply \in Replies : Generate(reply)

QueryNext ==
    \/ AnalyzeStep
    \/ FetchStep
    \/ GenerateStep
    \/ Finish

SpecQuery == QueryInit /\ [][QueryNext]_vars

\* _generate_answer on tables of every length up to MaxRows, one more than
\* the ten rows of the sample.  Row i of a table carries i in its columns of
\* numbers.
MaxRows == 11
SampleColumns ==
    { <<"TEAM_NAME", "season", "PTS_PER_GAME">>,
      <<"PLAYER_NAME", "PTS_TOTALS">>,
      <<"PER">> }
SampleTable(cols, n) ==
    [cols |-> cols,
     rows |-> [i \in 1..n |->
                 [j \in DOMAIN cols |->
                    IF cols[j] = "season" THEN PyStr("2023-24")
                    ELSE IF cols[j] \in {"TEAM_NAME", "PLAYER_NAME"}
                    THEN PyStr(<<"N", Digits[(i % 10) + 1]>>)
                    ELSE PyInt(100 - i)]]]
SampleTables == {SampleTable(cols, n) : cols \in SampleColumns, n \in 0..MaxRows}

\* the analyses the tables are answered for
SampleExtractions ==
    { [kind |-> "malformed"],
      [kind |-> "object",
       raw |-> Raw("top_performers", <<>>, <<>>, <<"2022-23", "2023-24">>,
                   << <<"p", "o", "i", "n", "t", "s">> >>, "totals", 2, "team")] }

\* query() after its first two stages, with a table as the fetched data
GenerateInit ==
    /\ CacheIdle /\ ResolveIdle /\ StorageIdle /\ ClientIdle
    /\ qpc = "fetched"
    /\ extraction \in SampleExtractions
    /\ \E end \in Invoke(extraction) :
          /\ analysis = analyze_query(end)
          /\ analysis.kind = "return"
    /\ data \in SampleTables
    /\ answer = ""
    /\ data_sample = NoCall
    /\ llmCalls = [analyze |-> 1, answer |-> 0]

GenerateNext ==
    \/ GenerateStep
    \/ Finish

SpecGenerate == GenerateInit /\ [][GenerateNext]_vars

----------------------------------------------------------------------------
(* C4 *)

\* C4: query(question) never raises, and when it has returned, what it
\* returned is a string.
C4_QueryNeverRaises ==
    /\ qpc # "raised"
    /\ qpc = "done" => answer \in STRING /\ answer # ""

----------------------------------------------------------------------------
(* C5 *)

\* the structured extraction failed to parse or to validate
ExtractionFailed ==
    \/ extraction.kind = "malformed"
    \/ extraction.kind = "object" /\ ~Valid(extraction.raw)

\* C5: the analyzer never raises, and whenever the structured extraction
\* failed to parse or to validate it returns the fixed fallback analysis.
C5_AnalyzerNeverRaises ==
    qpc # "idle" =>
        /\ analysis.kind = "return"
        /\ ExtractionFailed => analysis.value = Fallback

----------------------------------------------------------------------------
(* C6 *)

\* the analyzer has returned an analysis
AnalysisReturned == qpc \in {"analyzed", "fetched", "done"} /\ analysis.kind = "return"

\* C6: every analysis the analyzer returns has a non-empty seasons list: it
\* is [default_season] when the extraction yielded no season, and also when
\* the analysis is the fallback.
C6_SeasonsNeverEmpty ==
    AnalysisReturned =>
        /\ analysis.value.seasons # <<>>
        /\ (extraction.kind = "object" /\ extraction.raw.seasons = <<>>) =>
              analysis.value.seasons = <<DEFAULT_SEASON>>
        /\ extraction.kind # "object" => analysis.value.seasons = <<DEFAULT_SEASON>>

\* the analyzer returned the analysis of a question that names no season
C6_Witness ==
    /\ qpc = "analyzed"
    /\ extraction.kind = "object"
    /\ extraction.raw.intent = "player_stats"
    /\ extraction.raw.seasons = <<>>
    /\ analysis.value.seasons = <<DEFAULT_SEASON>>
    /\ analysis.value.players = extraction.raw.players

----------------------------------------------------------------------------
(* C9 *)

\* two names are equal ignoring case
SameLetter(c, d) ==
    c = d \/ \E k \in DOMAIN LowerChars : {c, d} = {LowerChars[k], UpperChars[k]}
EqualIgnoringCase(a, b) ==
    Len(a) = Len(b) /\ \A i \in DOMAIN a : SameLetter(a[i], b[i])

\* the loaded dataset has a table with that name column and a season column
HasTable(name_col) ==
    \E name \in DOMAIN cached_data :
        HasCol(cached_data[name], name_col) /\ HasCol(cached_data[name], "season")
TableWith(name_col) ==
    cached_data[CHOOSE name \in DOMAIN cached_data :
                   HasCol(cached_data[name], name_col) /\ HasCol(cached_data[name], "season")]

\* the rows of the table whose name is requested and whose season is requested
Requested(df, name_col, names, seasons) ==
    SelectSeq(df.rows,
       LAMBDA r : /\ \E i \in DOMAIN names :
                        EqualIgnoringCase(r[ColIndex(df, name_col)].v, names[i])
                  /\ \E k \in DOMAIN seasons : r[ColIndex(df, "season")].v = seasons[k])

\* C9: for the intents player_stats and player_comparison (team_stats and
\* team_comparison) fetch returns exactly the rows of the loaded player
\* (team) table whose name equals, ignoring case, an entry of
\* analysis.players (analysis.teams) and whose season is in analysis.seasons.
C9_FetchFilter ==
    qpc = "fetched" =>
        /\ (analysis.value.intent \in {"player_stats", "player_comparison"}
              /\ HasTable("PLAYER_NAME")) =>
                data.rows = Requested(TableWith("PLAYER_NAME"), "PLAYER_NAME",
                                      analysis.value.players, analysis.value.seasons)
        /\ (analysis.value.intent \in {"team_stats", "team_comparison"}
              /\ HasTable("TEAM_NAME")) =>
                data.rows = Requested(TableWith("TEAM_NAME"), "TEAM_NAME",
                                      analysis.value.teams, analysis.value.seasons)

----------------------------------------------------------------------------
(* C11 *)

\* the query is past its fetch stage and asks for top performers
TopPerformersFetched ==
    qpc \in {"fetched", "done"} /\ analysis.value.intent = "top_performers"

\* the name column of the table analysis.entity selects
EntityColumn == IF analysis.value.entity = "player" THEN "PLAYER_NAME" ELSE "TEAM_NAME"

\* resolve(first entry of analysis.stats or "points", analysis.stats_type)
RankColumn ==
    ResolveStatColumn(IF analysis.value.stats # <<>> THEN analysis.value.stats[1] ELSE Points,
                      analysis.value.stats_type)

\* the rows of that season in a table
OfSeason(df, season) ==
    SelectSeq(df.rows, LAMBDA r : r[ColIndex(df, "season")].v = season)

Min(a, b) == IF a <= b THEN a ELSE b

\* C11: for intent top_performers fetch returns rows of the table that
\* analysis.entity selects, ranked by the resolved stat column: of every
\* requested season the top_n rows with the largest values (all of them if
\* there are fewer), in descending order, and when rows are returned the
\* answer LLM is invoked.
C11_TopPerformers ==
    (/\ TopPerformersFetched
     /\ analysis.value.top_n >= 1
     /\ HasTable(EntityColumn)
     /\ HasCol(TableWith(EntityColumn), RankColumn)
     /\ \E k \in DOMAIN analysis.value.seasons :
           OfSeason(TableWith(EntityColumn), analysis.value.seasons[k]) # <<>>) =>
        /\ HasCol(data, RankColumn) /\ HasCol(data, "season")
        /\ \A k \in DOMAIN analysis.value.seasons :
              LET season == analysis.value.seasons[k]
                  got == OfSeason(data, season)
                  all == OfSeason(TableWith(EntityColumn), season)
              IN  /\ Len(got) = Min(analysis.value.top_n, Len(all))
                  /\ \A i, j \in DOMAIN got :
                        i < j => got[i][ColIndex(data, RankColumn)].v
                                    >= got[j][ColIndex(data, RankColumn)].v
                  /\ \A i \in DOMAIN got :
                        Cardinality({m \in DOMAIN all :
                            all[m][ColIndex(TableWith(EntityColumn), RankColumn)].v
                                > got[i][ColIndex(data, RankColumn)].v}) < analysis.value.top_n
        /\ \A i \in DOMAIN data.rows :
              \E k \in DOMAIN analysis.value.seasons :
                  data.rows[i][ColIndex(data, "season")].v = analysis.value.seasons[k]
        /\ qpc = "done" => llmCalls.answer = 1

----------------------------------------------------------------------------
(* C12 *)

\* C12: whenever the retrieved table is empty, generate returns the fixed
\* "No relevant NBA data found" sentence and the answer LLM is not invoked
\* during that query.
C12_EmptyDataSentinel ==
    (qpc = "done" /\ data.rows = <<>>) =>
        /\ answer = "No relevant NBA data found to answer your question."
        /\ llmCalls.answer = 0

\* a query for a player's stats ended with an empty table and the sentence
C12_Witness ==
    /\ qpc = "done"
    /\ analysis.value.intent = "player_stats"
    /\ data = DfEmpty
    /\ answer = NoDataAnswer
    /\ llmCalls = [analyze |-> 1, answer |-> 0]

----------------------------------------------------------------------------
(* C13 *)

\* C13: when a backend read error occurs at any point of a load() call, while
\* listing or while reading the file of any table, also after other tables
\* were read, load() does not raise and returns an empty dataset.
C13_LoadErrorEmpty ==
    (loadCall.op = "load" /\ loadCall.failed) => loadCall.ret = <<>>

----------------------------------------------------------------------------
(* C14 *)

\* the step of a save() call that returned False
FailedSave == nsaves' = nsaves + 1 /\ ~saveCall'.ret

\* the artifacts a save() call is to write: two per non-empty table, named by
\* the prefix, the table and the timestamp of the call
ArtifactsOf(call) ==
    {Path(call.prefix, call.dataset[i].name, Timestamp(call.at), ext) :
        i \in {k \in DOMAIN call.dataset : ~IsEmpty(call.dataset[k].df)},
        ext \in {"csv", "json"}}

----------------------------------------------------------------------------
(* C15 *)

\* C15: two save() calls with the same prefix, whatever their timing and
\* interleaving, give two independent snapshots per non-empty table: no call
\* writes over an artifact written by the other, and an artifact once written
\* is never modified by a later save.
C15_SnapshotsImmutable ==
    [][\A p \in DOMAIN files :
          p \in DOMAIN files' /\ files'[p].content = files[p].content]_vars

----------------------------------------------------------------------------
(* C16 *)

\* the artifacts in fs that a call named for its i-th table
NamedFor(fs, call, i) ==
    {p \in DOMAIN fs : /\ p.prefix = call.prefix
                       /\ p.tokens = call.dataset[i].name \o Timestamp(call.at)}

\* C16: save() skips every empty table without failing and writes, for every
\* non-empty table, exactly two artifacts, the CSV and the JSON text of the
\* table, named prefix/table_timestamp with the one timestamp of the call; it
\* returns True whenever no backend operation fails (a store without
\* configuration counting as failed), also when every table is empty and
\* nothing is written.
C16_SaveWrites ==
    [][nsaves' = nsaves + 1 =>
        LET call == saveCall'
        IN  /\ call.ret = (backend # "unconfigured" /\ ~call.failed)
            /\ call.ret =>
                 /\ \A i \in DOMAIN call.dataset :
                      LET df == call.dataset[i].df
                          named == NamedFor(files', call, i)
                      IN  IF IsEmpty(df) THEN named \subseteq DOMAIN files
                          ELSE /\ Cardinality(named) = 2
                               /\ \E c, j \in named :
                                    /\ c.ext = "csv" /\ files'[c].content = ToCsv(df)
                                    /\ j.ext = "json" /\ files'[j].content = ToJson(df)
                 /\ \A p \in DOMAIN files' :
                      \/ p \in DOMAIN files /\ files'[p] = files[p]
                      \/ \E i \in DOMAIN call.dataset :
                           ~IsEmpty(call.dataset[i].df) /\ p \in NamedFor(files', call, i)
                 /\ DOMAIN files \subseteq DOMAIN files']_vars

\* a save() of an empty and a non-empty table returned True and the backend
\* holds the two artifacts of the non-empty one
C16_Witness ==
    /\ saveCall.op = "save"
    /\ saveCall.ret
    /\ Len(saveCall.dataset) = 2
    /\ IsEmpty(saveCall.dataset[1].df)
    /\ ~IsEmpty(saveCall.dataset[2].df)
    /\ DOMAIN files = NamedFor(files, saveCall, 2)
    /\ Cardinality(DOMAIN files) = 2

----------------------------------------------------------------------------
(* C17 *)

\* a load() that met no backend error has returned
Loaded == loadCall.op = "load" /\ ~loadCall.failed

\* the CSV artifacts under the prefix whose name begins with g
ArtifactsNamed(prefix, g) ==
    {p \in DOMAIN files : Under(p, prefix) /\ p.ext = "csv" /\ <<Head(p.tokens)>> = g}

\* C17: load() never merges snapshots.  The result of a load() that met no
\* backend error has exactly one entry per inferred table name with an
\* artifact under the prefix, and the table under it is what read_csv reads
\* from exactly one of these artifacts: one of greatest modification time when
\* latest_only=true, the one the listing puts first, any of them, when
\* latest_only=false.
C17_OneSnapshotPerName ==
    Loaded =>
        /\ DOMAIN loadCall.ret =
              {g \in {<<Head(p.tokens)>> : p \in DOMAIN files} :
                  ArtifactsNamed(loadCall.prefix, g) # {}}
        /\ \A g \in DOMAIN loadCall.ret :
              \E p \in ArtifactsNamed(loadCall.prefix, g) :
                  /\ loadCall.ret[g] = ReadCsv(files[p].content)
                  /\ loadCall.latest_only =>
                        \A q \in ArtifactsNamed(loadCall.prefix, g) :
                            files[q].mtime <= files[p].mtime

\* a load(latest_only=true) returned the later of two snapshots of a table
\* whose rows differ
C17_Witness ==
    /\ Loaded
    /\ loadCall.latest_only
    /\ \E g \in DOMAIN loadCall.ret :
          \E p, q \in ArtifactsNamed(loadCall.prefix, g) :
              /\ files[q].mtime < files[p].mtime
              /\ ReadCsv(files[q].content) # ReadCsv(files[p].content)
              /\ loadCall.ret[g] = ReadCsv(files[p].content)

----------------------------------------------------------------------------
(* C18 *)

\* nothing was ever saved under the prefix: no directory of that name, no
\* artifact named with it
NeverWritten(prefix) ==
    /\ prefix \notin dirs
    /\ \A p \in DOMAIN files : p.prefix # prefix

----------------------------------------------------------------------------
(* C19 *)

\* no call has been made on the retriever since it was constructed
NewlyConstructed == clientCall.op \in {"none", "init"}

\* the dataset load_data is to return for what storage.load does: its
\* result, the empty dataset when it raises
Yielded(outcome) == IF outcome.kind = "raise" THEN <<>> ELSE outcome.value

\* C19: on a newly constructed retriever load_data(prefix, latest_only)
\* returns exactly the dataset that the load of its own storage yields for
\* that call, the empty dataset when that returns one or raises, and leaves
\* cached_data equal to the returned value, whatever load_data and
\* collect_and_store_dataset calls other retrievers of the process made before.
C19_OwnStorageOnly ==
    [][(NewlyConstructed /\ clientCall'.op = "load_data") =>
          /\ clientCall'.end = Returned(Yielded(clientCall'.storage))
          /\ cached_data' = Yielded(clientCall'.storage)]_vars

----------------------------------------------------------------------------
(* C20 *)

\* the steps of a call that lie inside its with block
InWith == {"locked", "check", "remove", "release"}

\* C20: under any interleaving of concurrent set/get/has/delete calls of
\* several threads, a call reads and modifies the map only while it holds the
\* one lock; a get never returns the value of an entry it found expired; no
\* call ends with the error of a double removal, so two concurrent reads of an
\* expired key both return the default; and the lock is held by nobody but a
\* call inside its with block, so that it is free again after every call.
C20_LockDiscipline ==
    /\ \A t \in DOMAIN calls :
          /\ calls[t].pc \in InWith => lock = t
          /\ calls[t].error = ""
          /\ (calls[t].op = "get" /\ calls[t].expired) => calls[t].ret = calls[t].default
    /\ lock # Free => lock \in DOMAIN calls /\ calls[lock].pc \in InWith

\* two reads of one expired key ended with the default, the second entered
\* while the first held the lock: the first found the entry expired and
\* removed it, the second found no entry
C20_Witness ==
    /\ DOMAIN calls = {1, 2}
    /\ calls[1].pc = "done" /\ calls[2].pc = "done"
    /\ calls[1].op = "get" /\ calls[2].op = "get"
    /\ calls[1].key = calls[2].key
    /\ calls[1].expired
    /\ calls[2].busy = 1
    /\ calls[2].item = None
    /\ calls[1].ret = calls[1].default /\ calls[2].ret = calls[2].default
    /\ lock = Free

----------------------------------------------------------------------------
(* C21 *)

\* the intents fetch has a branch for
RecognizedIntents ==
    {"player_stats", "player_comparison", "team_stats", "team_comparison", "top_performers"}

FetchedIntent == Field(analysis.value, "intent", "player_stats")

\* the table the intent needs, under the key load gives it, and its name column
NeededKey ==
    IF FetchedIntent \in {"player_stats", "player_comparison"} THEN "player"
    ELSE IF FetchedIntent \in {"team_stats", "team_comparison"} THEN "team"
    ELSE Field(analysis.value, "entity", "player")
NeededNameColumn == IF NeededKey = "player" THEN "PLAYER_NAME" ELSE "TEAM_NAME"

\* the retriever cannot serve the query: the intent is not recognized, the
\* needed table is absent or empty, or it lacks the name column, the season
\* column or, for top performers, the resolved stat column
CannotServe ==
    \/ FetchedIntent \notin RecognizedIntents
    \/ NeededKey \notin DOMAIN cached_data
    \/ /\ NeededKey \in DOMAIN cached_data
       /\ LET df == cached_data[NeededKey]
          IN  \/ IsEmpty(df)
              \/ ~HasCol(df, NeededNameColumn)
              \/ ~HasCol(df, "season")
              \/ /\ FetchedIntent = "top_performers"
                 /\ ~HasCol(df, ResolveStatColumn(
                        IF Field(analysis.value, "stats", <<>>) # <<>>
                        THEN analysis.value.stats[1] ELSE Points,
                        Field(analysis.value, "stats_type", "per_game")))

\* C21: fetch never raises, and it returns an empty table whenever the intent
\* is none of the recognized ones (the fallback intent general and
\* season_analysis among them), whenever the needed table is absent or empty,
\* and whenever the name column, the season column or the resolved stat column
\* is missing from the table.
C21_FetchDegrades ==
    qpc \in {"fetched", "done"} =>
        /\ DOMAIN data = {"cols", "rows"}
        /\ CannotServe => data.rows = <<>>

\* a query for a player's stats was fetched from a dataset whose player table
\* has no season column, and the table returned is empty
C21_Witness ==
    /\ qpc = "fetched"
    /\ FetchedIntent = "player_stats"
    /\ "player" \in DOMAIN cached_data
    /\ ~IsEmpty(cached_data["player"])
    /\ ~HasCol(cached_data["player"], "season")
    /\ data = DfEmpty

----------------------------------------------------------------------------
(* C22 *)

\* C22: every analysis that leaves the analyzer and reaches the retriever
\* has top_n >= 1, whatever integer the structured extraction produced.
C22_TopNPositive ==
    qpc \in {"analyzed", "fetched", "done"} => Field(analysis.value, "top_n", 10) >= 1

----------------------------------------------------------------------------
(* C23 *)

\* the collector returned a dataset that is not empty and storage.save
\* returned True
CollectedAndSaved(call) ==
    /\ call.collected.kind = "return"
    /\ call.collected.value # <<>>
    /\ call.saved = Returned(TRUE)

\* C23: setup_nba_dataset never raises.  It returns False when the collector
\* yields an empty dataset (storage.save is then not called), when
\* storage.save returns False, and when the collector raises; it returns True
\* only if storage.save returned True; and the process-wide cache is written
\* only in that case.
C23_SetupNeverRaises ==
    [][clientCall'.op = "setup_nba_dataset" =>
        LET call == clientCall'
        IN  /\ call.end = Returned(CollectedAndSaved(call))
            /\ (call.collected.kind = "raise" \/ call.collected.value = <<>>) =>
                  call.saves = 0
            /\ ~CollectedAndSaved(call) => store' = store
            /\ CollectedAndSaved(call) =>
                  \A k \in DOMAIN store : k # "dataset:" \o call.prefix =>
                      k \in DOMAIN store' /\ store'[k] = store[k]]_vars

\* setup_nba_dataset returned False for a collected dataset that storage.save
\* did not save, and the cache is empty
C23_Witness ==
    /\ clientCall.op = "setup_nba_dataset"
    /\ clientCall.collected = Returned(FullDataset)
    /\ clientCall.saved = Returned(FALSE)
    /\ clientCall.saves = 1
    /\ clientCall.end = Returned(FALSE)
    /\ store = <<>>

----------------------------------------------------------------------------
(* C24 *)

\* C24: in one query() call the stages run exactly once each in the order
\* analyze, fetch, generate, each on the output of the stage before it: a
\* call that has ended has an analysis, the table fetched for it and the
\* answer generated from the table; the analysis LLM and the answer LLM are
\* invoked at most once per query, and the store is loaded from at most once
\* by the fetch.
C24_StagesOnce ==
    /\ qpc \in {"done", "raised"} =>
          /\ analysis.kind = "return"
          /\ data # NoCall
          /\ answer # ""
    /\ qpc \in {"fetched", "done"} => analysis.kind = "return" /\ data # NoCall
    /\ llmCalls.analyze <= 1
    /\ llmCalls.answer <= 1
    /\ clientCall # NoCall => clientCall.loads <= 1

----------------------------------------------------------------------------
(* C25 *)

\* the seasons of the sample tables, in season order
SeasonsAscending == <<"2021-22", "2022-23", "2023-24">>
SeasonRank(season) ==
    CHOOSE k \in DOMAIN SeasonsAscending : SeasonsAscending[k] = season

\* C25: a get_top_teams call over several seasons on a loaded team table
\* returns the rows group by group in season order: the rows of one season
\* are contiguous, a row of an earlier season comes before every row of a
\* later one, and inside a season the rows are in descending order of the
\* stat.
C25_SeasonGroups ==
    (/\ clientCall.op = "get_top_teams"
     /\ Len(clientCall.seasons) > 1
     /\ clientCall.top_n >= 1
     /\ \E name \in DOMAIN cached_data : HasCol(cached_data[name], "TEAM_NAME")) =>
        /\ clientCall.end.kind = "return"
        /\ LET rows == clientCall.end.value.rows
           IN  \A i, j \in DOMAIN rows :
                  i < j =>
                     /\ SeasonRank(SeasonOf(rows[i])) <= SeasonRank(SeasonOf(rows[j]))
                     /\ SeasonOf(rows[i]) = SeasonOf(rows[j]) =>
                            ValueOf(rows[i]) >= ValueOf(rows[j])

----------------------------------------------------------------------------
(* C26 *)

\* the table name a file was saved under: its name without the timestamp
SavedAs(p) == SubSeq(p.tokens, 1, Len(p.tokens) - 2)

\* C26: load keys every table it returns by the text before the first
\* underscore of the file name, and returns under a key one snapshot of the
\* files that begin with it: a load that did not fail returns exactly one
\* table per first text of the files of the prefix, so a file saved for
\* player_stats is returned under player, and files saved for two tables
\* that share their first text are returned as one table.
C26_KeyedByFirstText ==
    loadCall.op = "load" =>
        LET listed == CsvFiles(files, loadCall.prefix)
            ret == loadCall.ret
        IN  /\ \A g \in DOMAIN ret :
                  /\ Len(g) = 1
                  /\ \E p \in listed :
                        /\ Head(p.tokens) = g[1]
                        /\ ret[g] = ReadCsv(files[p].content)
            /\ (~loadCall.failed /\ Found(loadCall.prefix)) =>
                  /\ \A p \in listed : <<Head(p.tokens)>> \in DOMAIN ret
                  /\ \A p, q \in listed :
                        (Head(p.tokens) = Head(q.tokens) /\ SavedAs(p) # SavedAs(q)) =>
                            /\ SavedAs(p) \notin DOMAIN ret \/ SavedAs(q) \notin DOMAIN ret
                            /\ Cardinality({g \in DOMAIN ret : g[1] = Head(p.tokens)}) = 1

\* a load from the object store has returned, as the one table players, the
\* snapshot saved for players_old while a different one saved for players is
\* there
C26_Witness ==
    /\ loadCall.op = "load"
    /\ ~loadCall.failed
    /\ \E p, q \in CsvFiles(files, loadCall.prefix) :
          /\ SavedAs(p) = <<"players", "old">>
          /\ SavedAs(q) = <<"players">>
          /\ DOMAIN loadCall.ret = {<<"players">>}
          /\ loadCall.ret[<<"players">>] = ReadCsv(files[p].content)
          /\ files[p].content # files[q].content
    /\ backend = "s3"

----------------------------------------------------------------------------
(* C27 *)

\* C27: when the answer stage invokes the LLM on a table of n rows, the
\* records in its messages are the first min(10, n) rows of the table, in
\* the table's order and with the table's values; when it does not invoke
\* the LLM, no record is sent.
C27_SampleIsHead ==
    qpc = "done" =>
        IF llmCalls.answer = 0 THEN data_sample = NoCall
        ELSE LET n == Len(data.rows)
                 k == IF n < 10 THEN n ELSE 10
             IN  /\ DOMAIN data_sample = 1..k
                 /\ \A i \in 1..k :
                       /\ DOMAIN data_sample[i] = {data.cols[j] : j \in DOMAIN data.cols}
                       /\ \A j \in DOMAIN data.cols :
                             data_sample[i][data.cols[j]] = data.rows[i][j]

\* the LLM was invoked on a table of more than ten rows and shown ten of them
C27_Witness ==
    /\ qpc = "done"
    /\ llmCalls.answer = 1
    /\ Len(data.rows) > 10
    /\ Len(data_sample) = 10
    /\ data_sample[10]["PER"] = data.rows[10][1]

----------------------------------------------------------------------------
(* C28 *)

\* the calls that begin with `if not self.cached_data: self.load_data()`
LoadingCalls == {"get_player_stats", "get_team_stats", "get_top_teams"}

\* C28: a call of get_player_stats, get_team_stats or get_top_teams calls
\* load_data, once, if and only if cached_data is empty when it begins; a
\* call that begins with cached_data not empty does not call storage.load
\* and leaves the cache, cached_data and the loaded datasets as they are.
C28_LoadsIffEmpty ==
    [][ clientCall'.op \in LoadingCalls =>
          /\ clientCall'.load_data = (IF cached_data = <<>> THEN 1 ELSE 0)
          /\ cached_data # <<>> =>
                /\ clientCall'.loads = 0
                /\ UNCHANGED <<store, hist, cached_data, loaded>> ]_vars

\* a call that did not load because cached_data held a dataset, after one
\* that loaded and found one
C28_Witness ==
    /\ clientCall.op \in LoadingCalls
    /\ clientCall.load_data = 0
    /\ cached_data # <<>>
    /\ <<"nba-data", TRUE>> \in DOMAIN loaded

----------------------------------------------------------------------------
(* C29 *)

UpdateCalls == {"collect_and_store_dataset", "setup_nba_dataset"}

\* the cache entries other than those of the given keys are as they were,
\* and no entry was deleted
OnlyWrites(keys) ==
    /\ DOMAIN store \subseteq DOMAIN store'
    /\ DOMAIN store' \subseteq DOMAIN store \cup keys
    /\ \A k \in DOMAIN store \ keys : store'[k] = store[k]

\* C29: collect_and_store_dataset (alone or within setup_nba_dataset)
\* writes the cache only under dataset:{prefix} and deletes nothing, and
\* load_data writes only the entry of its own key dataset:{prefix}:latest or
\* dataset:{prefix}:all; so an update leaves those two entries as they were,
\* and a load_data that was a cache hit before the update returns after it
\* the dataset it returned before.
C29_UpdateLeavesLoadKeys ==
    [][ /\ clientCall'.op \in UpdateCalls =>
            /\ OnlyWrites({"dataset:" \o clientCall'.prefix})
            /\ \A latest_only \in BOOLEAN :
                 LET key == CacheKey(clientCall'.prefix, latest_only)
                     before == LoadDataRun(store, hist, cached_data, loaded,
                                 clientCall'.prefix, latest_only, Raised("Exception"), now)
                     after == LoadDataRun(store', hist', cached_data', loaded',
                                 clientCall'.prefix, latest_only, Raised("Exception"), now')
                 IN  /\ key \in DOMAIN store <=> key \in DOMAIN store'
                     /\ key \in DOMAIN store => store'[key] = store[key]
                     /\ before.loads = 0 => after.loads = 0 /\ after.ret = before.ret
        /\ clientCall'.op = "load_data" =>
            OnlyWrites({CacheKey(clientCall'.prefix, clientCall'.latest_only)}) ]_vars

\* an update has succeeded and cached a dataset under dataset:nba-data while
\* the entry load_data reads holds another one
C29_Witness ==
    /\ clientCall.op \in UpdateCalls
    /\ clientCall.end = Returned(TRUE)
    /\ "dataset:nba-data" \in DOMAIN store
    /\ CacheKey("nba-data", TRUE) \in DOMAIN store
    /\ store[CacheKey("nba-data", TRUE)].value # store["dataset:nba-data"].value
    /\ LoadDataRun(store, hist, cached_data, loaded, "nba-data", TRUE,
                   Raised("Exception"), now).ret = store[CacheKey("nba-data", TRUE)].value

----------------------------------------------------------------------------
(* C30 *)

\* C30: load(prefix) returns only snapshots that save calls made with that
\* prefix wrote, on either backend and also when the prefix is the beginning
\* of another one: a load of a prefix nothing was saved under returns the
\* empty dataset, and every table returned is the content of a file saved
\* under the prefix of the load.
C30_PrefixIsolation ==
    loadCall.op = "load" =>
        LET own == {p \in DOMAIN files : p.prefix = loadCall.prefix /\ p.ext = "csv"}
        IN  \A g \in DOMAIN loadCall.ret :
               \E p \in own :
                  /\ Head(p.tokens) = g[1]
                  /\ loadCall.ret[g] = ReadCsv(files[p].content)

====
